---- MODULE Spec2Model ----
(***************************************************************************)
(* Task storage of the todo backend: the JSON file kept by TaskStorage     *)
(* (crud.py), the Task entity (models.py) and the recurrence calculator.   *)
(* Optional values are sequences of length at most one: <<>> is None and   *)
(* <<v>> is the value v.                                                   *)
(***************************************************************************)
EXTENDS Integers, Sequences, FiniteSets, TLC

(* ---------------- bounds of the model ---------------- *)
MaxTasks == 2
MaxId == 3
MaxTime == 1
MaxChain == 1
MaxSuccessors == 2
MaxRacing == 2
MaxSockets == 2
MaxEmits == 2
MaxPersonal == 2
MaxRows == 2
MaxFilterLen == 2
MaxSortLen == 3
MaxLogs == 3

None == <<>>
Some(v) == <<v>>

(* Python truthiness of an Optional[str]: None and "" are falsy. *)
TruthyStr(o) == o # None /\ o[1] # ""

(* Python truthiness of an Optional[datetime]: only None is falsy. *)
TruthyDate(o) == o # None

(* ---------------- calendar arithmetic ---------------- *)
IsLeap(y) == (y % 4 = 0 /\ y % 100 # 0) \/ y % 400 = 0

monthrange(y, m) ==
    IF m = 2 THEN (IF IsLeap(y) THEN 29 ELSE 28)
    ELSE IF m \in {4, 6, 9, 11} THEN 30 ELSE 31

NextDay(d) ==
    IF d.day < monthrange(d.year, d.month) THEN [d EXCEPT !.day = d.day + 1]
    ELSE IF d.month < 12 THEN [d EXCEPT !.day = 1, !.month = d.month + 1]
    ELSE [d EXCEPT !.day = 1, !.month = 1, !.year = d.year + 1]

RECURSIVE timedelta_add(_, _)
timedelta_add(d, days) == IF days = 0 THEN d ELSE timedelta_add(NextDay(d), days - 1)

Min(a, b) == IF a <= b THEN a ELSE b

(* the calculator treating every unknown pattern as daily *)
calculate_next_due_date_else_daily(current_due, recurrence) ==
    IF recurrence = "weekly" THEN Some(timedelta_add(current_due, 7))
    ELSE IF recurrence = "monthly" THEN
        LET year == current_due.year + (current_due.month \div 12)
            month == (current_due.month % 12) + 1
            day == Min(current_due.day, monthrange(year, month))
        IN Some([current_due EXCEPT !.year = year, !.month = month, !.day = day])
    ELSE Some(timedelta_add(current_due, 1))

(* the calculator keeping the year when December rolls over to January *)
calculate_next_due_date_same_year(current_due, recurrence) ==
    IF recurrence = "daily" THEN Some(timedelta_add(current_due, 1))
    ELSE IF recurrence = "weekly" THEN Some(timedelta_add(current_due, 7))
    ELSE IF recurrence = "monthly" THEN
        LET year == current_due.year
            month == (current_due.month % 12) + 1
            day == Min(current_due.day, monthrange(year, month))
        IN Some([current_due EXCEPT !.year = year, !.month = month, !.day = day])
    ELSE None

calculate_next_due_date(current_due, recurrence) ==
    IF recurrence = "daily" THEN Some(timedelta_add(current_due, 1))
    ELSE IF recurrence = "weekly" THEN Some(timedelta_add(current_due, 7))
    ELSE IF recurrence = "monthly" THEN
        LET year == current_due.year + (current_due.month \div 12)
            month == (current_due.month % 12) + 1
            day == Min(current_due.day, monthrange(year, month))
        IN Some([current_due EXCEPT !.year = year, !.month = month, !.day = day])
    ELSE None

(* ---------------- the Task entity ---------------- *)
Get(d, f, default) == IF f \in DOMAIN d THEN d[f] ELSE default

(* default of the completed_at field *)
completed_at_default == None

(* Task built from the keyword dict d at time t: the fields of d that are   *)
(* Task fields, the defaults for the others.                               *)
Task(d, t) ==
    [id           |-> d.id,
     user_id      |-> Get(d, "user_id", 1),
     title        |-> d.title,
     description  |-> Get(d, "description", None),
     completed    |-> Get(d, "completed", FALSE),
     priority     |-> Get(d, "priority", None),
     tags         |-> Get(d, "tags", <<>>),
     due_date     |-> Get(d, "due_date", None),
     recurrence   |-> Get(d, "recurrence", None),
     created_at   |-> Get(d, "created_at", t),
     updated_at   |-> Get(d, "updated_at", t),
     completed_at |-> Get(d, "completed_at", completed_at_default)]

(* ---------------- persistence: the JSON file ---------------- *)
isoformat(dt) == [iso |-> dt]
fromisoformat(s) == s.iso

model_dump_json(task) ==
    [task EXCEPT !.created_at = isoformat(@),
                 !.updated_at = isoformat(@),
                 !.due_date = IF @ = None THEN None ELSE Some(isoformat(@[1])),
                 !.completed_at = IF @ = None THEN None ELSE Some(isoformat(@[1]))]

save_tasks(tasks) == [i \in 1..Len(tasks) |-> model_dump_json(tasks[i])]

(* load_tasks parses created_at, updated_at and due_date when present;     *)
(* every other value is passed to Task as the file holds it.               *)
load_task(task_dict) ==
    Task([task_dict EXCEPT !.created_at = fromisoformat(@),
                           !.updated_at = fromisoformat(@),
                           !.due_date = IF @ = None THEN None
                                        ELSE Some(fromisoformat(@[1]))], 0)

(* json.loads returning an empty list for a text that does not parse *)
json_loads_or_empty(text) ==
    IF Len(text) > 0 /\ "raw" \in DOMAIN text[1]
    THEN [raised |-> "", data |-> <<>>]
    ELSE [raised |-> "", data |-> text]

(* json.loads of the text of the file: the file is the JSON list when its   *)
(* text parses, and <<[raw |-> text]>> when the text is no JSON document    *)
json_loads(text) ==
    IF Len(text) > 0 /\ "raw" \in DOMAIN text[1]
    THEN [raised |-> "JSONDecodeError"]
    ELSE [raised |-> "", data |-> text]

(* load_tasks ends in ValueError when json.loads raises JSONDecodeError *)
load_tasks_raises(f) == json_loads(f).raised = "JSONDecodeError"

load_tasks(f) ==
    LET data == json_loads(f).data
    IN [i \in 1..Len(data) |-> load_task(data[i])]

(* ---------------- state ---------------- *)
VARIABLES
    file,        \* the persisted collection: the JSON list in tasks.json
    now,         \* the wall clock read by datetime.now()
    last,        \* the last call made and what it returned
    deletedIds,  \* ids of the tasks removed by delete_task so far
    logs,        \* AuditService._logs: the audit entries
    background_tasks, \* the notifications the last HTTP request scheduled
    manager,     \* the ConnectionManager: active_connections, all_connections
    loop,        \* the emit_task_event coroutines on the event loop
    wire,        \* what was handed to the sockets and to the event bus
    db,          \* the tasks table the MCP tools write
    inflight     \* update_task calls that have loaded and not yet saved

vars == <<file, now, last, deletedIds, logs, background_tasks,
         manager, loop, wire, db, inflight>>

(* the WebSocket objects; a socket's number is also its place in the hash   *)
(* table of a set, which is the order a set iterator yields in              *)
Sockets == 1..MaxSockets

Users == {"anonymous", "alice"}

EmptyDict == [key \in {} |-> {}]

Ids(tasks) == {tasks[i].id : i \in 1..Len(tasks)}

SetMax(S) == CHOOSE x \in S : \A y \in S : y <= x

(* index of the first task with the given id, 0 when there is none *)
FirstIndex(tasks, task_id) ==
    IF task_id \in Ids(tasks)
    THEN CHOOSE i \in 1..Len(tasks) :
            /\ tasks[i].id = task_id
            /\ \A j \in 1..(i - 1) : tasks[j].id # task_id
    ELSE 0

(* get_next_id counting the tasks instead of taking the greatest id *)
get_next_id_count(f) ==
    LET tasks == load_tasks(f)
    IN Len(tasks) + 1

(* get_next_id returning the smallest id that no task has *)
get_next_id_free(f) ==
    LET tasks == load_tasks(f)
    IN CHOOSE n \in 1..(Len(tasks) + 1) :
          /\ n \notin Ids(tasks)
          /\ \A m \in 1..(n - 1) : m \in Ids(tasks)

get_next_id(f) ==
    LET tasks == load_tasks(f)
    IN IF tasks = <<>> THEN 1 ELSE SetMax(Ids(tasks)) + 1

(* ---------------- add_task ---------------- *)
add_task_tasks(f, inp, t) ==
    LET tasks == load_tasks(f)
        task == Task([id |-> get_next_id(f), user_id |-> 1, title |-> inp.title,
                      description |-> inp.description, priority |-> inp.priority,
                      tags |-> inp.tags, due_date |-> inp.due_date,
                      recurrence |-> inp.recurrence], t)
    IN save_tasks(Append(tasks, task))

(* all_tasks[i] = value *)
list_setitem(l, i, value) ==
    [j \in 1..Len(l) |-> IF j = i THEN value ELSE l[j]]

(* ---------------- update_task ---------------- *)
(* task_dict.update(updates) *)
dict_update(task_dict, updates) ==
    [f \in DOMAIN task_dict \cup DOMAIN updates |->
        IF f \in DOMAIN updates THEN updates[f] ELSE task_dict[f]]

(* update_task replacing the record: the fields that are not passed fall   *)
(* back to their defaults                                                   *)
update_task_tasks_replace(f, task_id, updates, t) ==
    LET all_tasks == load_tasks(f)
        i == FirstIndex(all_tasks, task_id)
    IN IF i = 0 THEN f
       ELSE LET task_dict == dict_update([id |-> all_tasks[i].id,
                                          title |-> all_tasks[i].title,
                                          created_at |-> all_tasks[i].created_at],
                                         updates)
                stamped == dict_update(task_dict, [updated_at |-> t])
            IN save_tasks(list_setitem(all_tasks, i, Task(stamped, t)))

(* update_task creating the task when no task has the id *)
update_task_tasks_upsert(f, task_id, updates, t) ==
    LET all_tasks == load_tasks(f)
        i == FirstIndex(all_tasks, task_id)
    IN IF i = 0
       THEN save_tasks(Append(all_tasks,
                Task(dict_update([id |-> task_id, title |-> "Untitled"], updates), t)))
       ELSE LET task_dict == dict_update(all_tasks[i], updates)
                stamped == dict_update(task_dict, [updated_at |-> t])
            IN save_tasks(list_setitem(all_tasks, i, Task(stamped, t)))

update_task_tasks(f, task_id, updates, t) ==
    LET all_tasks == load_tasks(f)
        i == FirstIndex(all_tasks, task_id)
    IN IF i = 0 THEN f
       ELSE LET task_dict == dict_update(all_tasks[i], updates)
                stamped == dict_update(task_dict, [updated_at |-> t])
            IN save_tasks(list_setitem(all_tasks, i, Task(stamped, t)))

(* ---------------- delete_task ---------------- *)
delete_task_tasks(f, task_id) ==
    LET all_tasks == load_tasks(f)
        kept == SelectSeq(all_tasks, LAMBDA task : task.id # task_id)
    IN IF Len(kept) < Len(all_tasks) THEN save_tasks(kept) ELSE f

(* ---------------- get_task_by_id ---------------- *)
(* the first task with the id, None when there is none *)
get_task_by_id_result(f, task_id) ==
    LET tasks == load_tasks(f)
        i == FirstIndex(tasks, task_id)
    IN IF i = 0 THEN None ELSE Some(tasks[i])

(* ---------------- search_tasks ---------------- *)
(* str.lower() on the strings of the model *)
lower(s) ==
    CASE s = "Work" -> "work"
      [] s = "WORK" -> "work"
      [] s = "Review" -> "review"
      [] s = "REVIEW" -> "review"
      [] s = "One-time task" -> "one-time task"
      [] s = "Daily standup" -> "daily standup"
      [] s = "Monthly report" -> "monthly report"
      [] s = "Recurring without date" -> "recurring without date"
      [] s = "Fortnightly" -> "fortnightly"
      [] s = "Weekly review" -> "weekly review"
      [] s = "Review weekly goals" -> "review weekly goals"
      [] s = "Updated Title" -> "updated title"
      [] OTHER -> s

(* `keyword in text` on the lower-case strings of the model *)
str_contains(text, keyword) ==
    \/ keyword = ""
    \/ keyword = text
    \/ <<keyword, text>> \in {<<"task", "one-time task">>,
                              <<"review", "weekly review">>,
                              <<"review", "review weekly goals">>,
                              <<"daily", "daily standup">>}

search_tasks(f, keyword) ==
    LET tasks == load_tasks(f)
        keyword_lower == lower(keyword)
    IN SelectSeq(tasks, LAMBDA task :
            \/ str_contains(lower(task.title), keyword_lower)
            \/ str_contains(lower(task.description[1]), keyword_lower))

(* ---------------- filter_tasks ---------------- *)
filter_tasks(tasks, status, priority, tag) ==
    LET by_status ==
            IF TruthyStr(status)
            THEN IF status[1] = "complete"
                 THEN SelectSeq(tasks, LAMBDA task : task.completed)
                 ELSE IF status[1] = "incomplete"
                      THEN SelectSeq(tasks, LAMBDA task : ~task.completed)
                      ELSE tasks
            ELSE tasks
        by_priority ==
            IF TruthyStr(priority)
            THEN SelectSeq(by_status, LAMBDA task :
                    task.priority # None /\ task.priority[1] = priority[1])
            ELSE by_status
        by_tag ==
            IF TruthyStr(tag)
            THEN LET tag_lower == lower(tag[1])
                 IN SelectSeq(by_priority, LAMBDA task :
                        \E i \in 1..Len(task.tags) : task.tags[i] = tag_lower)
            ELSE by_priority
    IN by_tag

(* ---------------- sort_tasks ---------------- *)
(* sorted(seq, key=...) with the integer keys given beside the elements:    *)
(* ascending, elements with equal keys in their original order              *)
sorted(seq, keys) ==
    LET n == Len(seq)
        pos(i) == Cardinality({j \in 1..n : keys[j] < keys[i]})
                    + Cardinality({j \in 1..(i - 1) : keys[j] = keys[i]}) + 1
    IN [p \in 1..n |-> seq[CHOOSE i \in 1..n : pos(i) = p]]

(* the order of datetime values, as an integer *)
datetime_key(d) == ((d.year * 12 + d.month) * 31 + d.day) * 1440 + d.tod

priority_order(p) ==
    IF p = None THEN 3
    ELSE IF p[1] = "high" THEN 0
    ELSE IF p[1] = "medium" THEN 1
    ELSE IF p[1] = "low" THEN 2
    ELSE 3

(* the order of the lower-case titles of the model, as an integer *)
str_key(s) ==
    CASE s = "daily standup" -> 1
      [] s = "fortnightly" -> 2
      [] s = "monthly report" -> 3
      [] s = "one-time task" -> 4
      [] s = "recurring without date" -> 5
      [] s = "updated title" -> 6
      [] s = "weekly review" -> 7

(* sort_tasks putting the tasks without a due date first *)
sort_tasks_without_due_first(tasks, sort_by) ==
    IF sort_by = "due-date"
    THEN LET with_due == SelectSeq(tasks, LAMBDA t : TruthyDate(t.due_date))
             without_due == SelectSeq(tasks, LAMBDA t : ~TruthyDate(t.due_date))
         IN without_due \o sorted(with_due, [i \in 1..Len(with_due) |->
                                                datetime_key(with_due[i].due_date[1])])
    ELSE tasks

sort_tasks(tasks, sort_by) ==
    IF sort_by = "due-date"
    THEN LET with_due == SelectSeq(tasks, LAMBDA t : TruthyDate(t.due_date))
             without_due == SelectSeq(tasks, LAMBDA t : ~TruthyDate(t.due_date))
         IN sorted(with_due, [i \in 1..Len(with_due) |->
                                 datetime_key(with_due[i].due_date[1])]) \o without_due
    ELSE IF sort_by = "priority"
    THEN sorted(tasks, [i \in 1..Len(tasks) |-> priority_order(tasks[i].priority)])
    ELSE IF sort_by = "title"
    THEN sorted(tasks, [i \in 1..Len(tasks) |-> str_key(lower(tasks[i].title))])
    ELSE tasks

(* ---------------- toggle_complete ---------------- *)
(* the successor built with the due date of the original, not advanced *)
new_task_of_same_due(f, all_tasks, task, is_completed, t) ==
    IF is_completed /\ TruthyStr(task.recurrence) /\ TruthyDate(task.due_date)
    THEN LET next_due == calculate_next_due_date(task.due_date[1], task.recurrence[1])
         IN IF TruthyDate(next_due)
            THEN LET new_task == Task([id |-> get_next_id(f), user_id |-> 1,
                                       title |-> task.title,
                                       description |-> task.description,
                                       priority |-> task.priority,
                                       tags |-> task.tags,
                                       due_date |-> task.due_date,
                                       recurrence |-> task.recurrence], t)
                     current_max_id == SetMax(Ids(all_tasks) \cup {0})
                 IN Some([new_task EXCEPT !.id = current_max_id + 1])
            ELSE None
    ELSE None

(* the successor built on every toggle, whichever way it goes *)
new_task_of_both_ways(f, all_tasks, task, is_completed, t) ==
    IF TruthyStr(task.recurrence) /\ TruthyDate(task.due_date)
    THEN LET next_due == calculate_next_due_date(task.due_date[1], task.recurrence[1])
         IN IF TruthyDate(next_due)
            THEN LET new_task == Task([id |-> get_next_id(f), user_id |-> 1,
                                       title |-> task.title,
                                       description |-> task.description,
                                       priority |-> task.priority,
                                       tags |-> task.tags,
                                       due_date |-> next_due,
                                       recurrence |-> task.recurrence], t)
                     current_max_id == SetMax(Ids(all_tasks) \cup {0})
                 IN Some([new_task EXCEPT !.id = current_max_id + 1])
            ELSE None
    ELSE None

(* the successor built only while the collection holds no task with the   *)
(* same title and the next due date                                        *)
new_task_of_once(f, all_tasks, task, is_completed, t) ==
    IF is_completed /\ TruthyStr(task.recurrence) /\ TruthyDate(task.due_date)
    THEN LET next_due == calculate_next_due_date(task.due_date[1], task.recurrence[1])
         IN IF TruthyDate(next_due)
               /\ \A j \in 1..Len(all_tasks) :
                     ~(all_tasks[j].title = task.title /\ all_tasks[j].due_date = next_due)
            THEN LET new_task == Task([id |-> get_next_id(f), user_id |-> 1,
                                       title |-> task.title,
                                       description |-> task.description,
                                       priority |-> task.priority,
                                       tags |-> task.tags,
                                       due_date |-> next_due,
                                       recurrence |-> task.recurrence], t)
                     current_max_id == SetMax(Ids(all_tasks) \cup {0})
                 IN Some([new_task EXCEPT !.id = current_max_id + 1])
            ELSE None
    ELSE None

(* the successor appended when a recurring task is completed, None if none *)
new_task_of(f, all_tasks, task, is_completed, t) ==
    IF is_completed /\ TruthyStr(task.recurrence) /\ TruthyDate(task.due_date)
    THEN LET next_due == calculate_next_due_date(task.due_date[1], task.recurrence[1])
         IN IF TruthyDate(next_due)
            THEN LET new_task == Task([id |-> get_next_id(f), user_id |-> 1,
                                       title |-> task.title,
                                       description |-> task.description,
                                       priority |-> task.priority,
                                       tags |-> task.tags,
                                       due_date |-> next_due,
                                       recurrence |-> task.recurrence], t)
                     current_max_id == SetMax(Ids(all_tasks) \cup {0})
                 IN Some([new_task EXCEPT !.id = current_max_id + 1])
            ELSE None
    ELSE None

toggle_complete_tasks(f, task_id, t) ==
    LET loaded == load_tasks(f)
        i == FirstIndex(loaded, task_id)
    IN IF i = 0 THEN f
       ELSE LET task == loaded[i]
                was_completed == task.completed
                is_completed == ~was_completed
                task_dict == dict_update(task, [completed |-> is_completed,
                                                updated_at |-> t])
                updated_task == Task(task_dict, t)
                all_tasks == list_setitem(loaded, i, updated_task)
                new_task == new_task_of(f, all_tasks, task, is_completed, t)
            IN save_tasks(all_tasks \o new_task)

(* ---------------- the audit service ---------------- *)
AuditEventTypes ==
    {"task.created", "task.updated", "task.deleted", "task.completed",
     "task.uncompleted", "task.searched", "chat.message"}

(* an entry as the constructor leaves it; `changes or {}`, `metadata or {}` *)
AuditLog(event_type, entity_id, entity_type, user_id, changes, metadata, t) ==
    [id |-> None, timestamp |-> t, event_type |-> event_type, entity_id |-> entity_id,
     entity_type |-> entity_type, user_id |-> user_id, changes |-> changes,
     metadata |-> metadata]

(* the id generator handing out 1 every time *)
audit_get_next_id_first(l) == 1

(* AuditService._get_next_id: max(log.id or 0) + 1 *)
audit_get_next_id(l) ==
    IF l = <<>> THEN 1
    ELSE SetMax({IF l[i].id = None THEN 0 ELSE l[i].id[1] : i \in 1..Len(l)}) + 1

(* AuditService.log: the entries after the call *)
log(l, event_type, entity_id, entity_type, user_id, changes, metadata, t) ==
    LET entry == AuditLog(event_type, entity_id, entity_type, user_id, changes, metadata, t)
    IN Append(l, [entry EXCEPT !.id = Some(audit_get_next_id(l))])

(* dict.get(key): None for a key the dict does not have *)
dict_get(d, key) == IF key \in DOMAIN d THEN d[key] ELSE None

(* the changes payload computed over the keys the two snapshots share *)
task_changes_shared_keys(old_data, new_data) ==
    LET keys == {key \in DOMAIN old_data \cap DOMAIN new_data :
                    dict_get(old_data, key) # dict_get(new_data, key)}
    IN [key \in keys |-> [old |-> dict_get(old_data, key), new |-> dict_get(new_data, key)]]

(* log_task_updated: the changes payload *)
task_changes(old_data, new_data) ==
    LET keys == {key \in DOMAIN old_data \cup DOMAIN new_data :
                    dict_get(old_data, key) # dict_get(new_data, key)}
    IN [key \in keys |-> [old |-> dict_get(old_data, key), new |-> dict_get(new_data, key)]]

(* logs[offset:offset + limit] for offset, limit >= 0 *)
slice(l, offset, limit) ==
    IF offset >= Len(l) THEN <<>> ELSE SubSeq(l, offset + 1, Min(Len(l), offset + limit))

(* AuditService.get_logs; event_type is a member of AuditEventType or None *)
get_logs(l, event_type, entity_id, user_id, limit, offset) ==
    LET by_type == IF event_type # None
                   THEN SelectSeq(l, LAMBDA e : e.event_type = event_type[1])
                   ELSE l
        by_entity == IF entity_id # None
                     THEN SelectSeq(by_type, LAMBDA e : e.entity_id = entity_id)
                     ELSE by_type
        by_user == IF TruthyStr(user_id)
                   THEN SelectSeq(by_entity, LAMBDA e : e.user_id = user_id[1])
                   ELSE by_entity
        newest_first == sorted(by_user, [i \in 1..Len(by_user) |-> 0 - by_user[i].timestamp])
    IN slice(newest_first, offset, limit)

(* GET /audit: a string that is no event type is dropped, not matched *)
get_audit_logs_result(l, event_type, entity_id, user_id, limit, offset) ==
    LET event_type_enum ==
            IF TruthyStr(event_type) /\ event_type[1] \in AuditEventTypes
            THEN event_type ELSE None
    IN get_logs(l, event_type_enum, entity_id, user_id, limit, offset)

(* ---------------- inputs of the calls ---------------- *)
Date(y, m, d, tod) == [year |-> y, month |-> m, day |-> d, tod |-> tod]

(* keyword arguments of add_task; tod is the time of day in minutes *)
TaskInputs ==
    << [title |-> "One-time task", description |-> Some(""), priority |-> None,
        tags |-> <<>>, due_date |-> None, recurrence |-> None],
       [title |-> "Daily standup", description |-> Some("Review"), priority |-> Some("high"),
        tags |-> <<"work", "planning">>, due_date |-> Some(Date(2025, 12, 31, 540)),
        recurrence |-> Some("daily")],
       [title |-> "Monthly report", description |-> Some(""), priority |-> None,
        tags |-> <<>>, due_date |-> Some(Date(2024, 1, 31, 870)),
        recurrence |-> Some("monthly")],
       [title |-> "Recurring without date", description |-> Some(""), priority |-> None,
        tags |-> <<>>, due_date |-> None, recurrence |-> Some("weekly")],
       [title |-> "Fortnightly", description |-> Some(""), priority |-> Some("low"),
        tags |-> <<>>, due_date |-> Some(Date(2025, 12, 29, 540)),
        recurrence |-> Some("biweekly")],
       [title |-> "Weekly review", description |-> Some("Review weekly goals"),
        priority |-> Some("high"), tags |-> <<"work", "planning">>,
        due_date |-> Some(Date(2025, 12, 29, 495)), recurrence |-> Some("weekly")] >>

(* keyword arguments of update_task *)
Updates ==
    << [title |-> "Updated Title"],
       [title |-> "Updated Title", updated_at |-> 0],
       [id |-> 1],
       [created_at |-> MaxTime + 1] >>

(* an id that no task has *)
NoSuchId == 999

(* the ids the calls are made with: those of the collection and a missing one *)
ArgIds ==
    IF load_tasks_raises(file) THEN {1, NoSuchId}
    ELSE Ids(load_tasks(file)) \cup {NoSuchId}

(* the instants datetime.now() may return when the clock may advance by    *)
(* adv: the clock never goes backwards                                      *)
Clock(adv) == now..Min(now + adv, MaxTime)

Recurrences == {"daily", "weekly", "monthly"}

InputDates ==
    {TaskInputs[k].due_date[1] : k \in {j \in 1..Len(TaskInputs) : TaskInputs[j].due_date # None}}
        \cup {Updates[k].due_date[1] : k \in {j \in 1..Len(Updates) : "due_date" \in DOMAIN Updates[j]}}

(* the due dates of the model: the input dates advanced at most n times *)
RECURSIVE DueDates(_)
DueDates(n) ==
    IF n = 0 THEN InputDates
    ELSE LET D == DueDates(n - 1)
         IN D \cup {calculate_next_due_date(d, r)[1] : d \in D, r \in Recurrences}

(* the due dates a stored task may carry within the bounds *)
ModelDueDates == DueDates(MaxChain)

(* a call on the store: op(id) with the k-th input; idx is the position of   *)
(* the task it found (0: none), found its result, was the completion state  *)
(* it found, succ whether it appended a successor, rep whether the call     *)
(* before it was a toggle_complete that found the same id, raised the       *)
(* exception the call ended in ("": none)                                   *)
Call(op, id, k, idx, was, succ, rep) ==
    [op |-> op, id |-> id, k |-> k, idx |-> idx, found |-> idx # 0, was |-> was,
     succ |-> succ, rep |-> rep, raised |-> "", ret |-> None]

(* a call on the store that ended in the corrupt-storage error of           *)
(* load_tasks, before anything was saved                                    *)
Raise(op) ==
    /\ last' = [Call(op, 0, 0, 0, FALSE, FALSE, FALSE) EXCEPT !.raised = "ValueError"]
    /\ UNCHANGED <<file, now, deletedIds, logs, background_tasks, manager, loop, wire, db, inflight>>

Init ==
    /\ file = <<>>
    /\ now = 0
    /\ last = Call("init", 0, 0, 0, FALSE, FALSE, FALSE)
    /\ deletedIds = {}
    /\ logs = <<>>
    /\ background_tasks = <<>>
    /\ manager = [active_connections |-> EmptyDict, all_connections |-> {}]
    /\ loop = [endpoints |-> [websocket \in Sockets |-> [pc |-> "new", user_id |-> ""]],
               tasks |-> <<>>]
    /\ wire = [sent |-> <<>>, published |-> <<>>]
    /\ db = <<>>
    /\ inflight = <<>>

(* K: the inputs the call is made with; adv: how far the clock may advance *)
add_task(K, adv) ==
    IF load_tasks_raises(file) THEN Raise("add")
    ELSE \E k \in K, t \in Clock(adv) :
        /\ Len(file) < MaxTasks
        /\ get_next_id(file) <= MaxId
        /\ file' = add_task_tasks(file, TaskInputs[k], t)
        /\ now' = t
        /\ last' = Call("add", get_next_id(file), k, Len(file) + 1, FALSE, FALSE, FALSE)
        /\ UNCHANGED <<deletedIds, logs, background_tasks, manager, loop, wire, db, inflight>>

(* K: the keyword arguments the call is made with *)
update_task(K, adv) ==
    IF load_tasks_raises(file) THEN Raise("update")
    ELSE \E task_id \in ArgIds, k \in K, t \in Clock(adv) :
        LET i == FirstIndex(load_tasks(file), task_id)
        IN /\ file' = update_task_tasks(file, task_id, Updates[k], t)
           /\ now' = IF i # 0 THEN t ELSE now
           /\ last' = Call("update", task_id, IF i # 0 THEN k ELSE 0, i,
                           FALSE, FALSE, FALSE)
           /\ UNCHANGED <<deletedIds, logs, background_tasks, manager, loop, wire, db, inflight>>

(* update_task up to the return of load_tasks: the call holds the loaded  *)
(* collection; another call may run before this one goes on               *)
update_task_load(K) ==
    IF load_tasks_raises(file) THEN Raise("update")
    ELSE \E task_id \in ArgIds, k \in K :
        /\ Len(inflight) < MaxRacing
        /\ inflight' = Append(inflight,
                [task_id |-> task_id, k |-> k, loaded |-> file, pc |-> "loaded",
                 result |-> None, order |-> 0])
        /\ last' = Call("update_load", task_id, k, FirstIndex(load_tasks(file), task_id),
                        FALSE, FALSE, FALSE)
        /\ UNCHANGED <<file, now, deletedIds, logs, background_tasks, manager, loop, wire, db>>

(* the rest of update_task: the loop over the loaded collection and the   *)
(* save of it when the task is found                                      *)
update_task_save(adv) ==
    \E p \in 1..Len(inflight), t \in Clock(adv) :
        LET call == inflight[p]
            i == FirstIndex(load_tasks(call.loaded), call.task_id)
            saved == update_task_tasks(call.loaded, call.task_id, Updates[call.k], t)
            order == Cardinality({q \in 1..Len(inflight) : inflight[q].pc = "saved"}) + 1
        IN /\ call.pc = "loaded"
           /\ file' = IF i # 0 THEN saved ELSE file
           /\ now' = IF i # 0 THEN t ELSE now
           /\ inflight' = list_setitem(inflight, p,
                   [call EXCEPT !.pc = "saved", !.order = order,
                                !.result = IF i # 0 THEN Some(saved[i]) ELSE None])
           /\ last' = Call("update_save", call.task_id, IF i # 0 THEN call.k ELSE 0, i,
                           FALSE, FALSE, FALSE)
           /\ UNCHANGED <<deletedIds, logs, background_tasks, manager, loop, wire, db>>

(* record: whether the removed id is remembered in deletedIds *)
delete_task(record) ==
    IF load_tasks_raises(file) THEN Raise("delete")
    ELSE \E task_id \in ArgIds :
        LET i == FirstIndex(load_tasks(file), task_id)
        IN /\ file' = delete_task_tasks(file, task_id)
           /\ last' = Call("delete", task_id, 0, i, FALSE, FALSE, FALSE)
           /\ deletedIds' = IF i # 0 /\ record THEN deletedIds \cup {task_id} ELSE deletedIds
           /\ UNCHANGED <<now, logs, background_tasks, manager, loop, wire, db, inflight>>

(* cap: the number of tasks the collection may reach *)
toggle_complete_within(adv, cap) ==
    IF load_tasks_raises(file) THEN Raise("toggle")
    ELSE \E task_id \in ArgIds, t \in Clock(adv) :
        LET loaded == load_tasks(file)
            i == FirstIndex(loaded, task_id)
            saved == toggle_complete_tasks(file, task_id, t)
            stored == load_tasks(saved)
        IN /\ Len(saved) <= cap
           /\ \A j \in 1..Len(stored) :
                /\ stored[j].id <= MaxId
                /\ stored[j].due_date # None => stored[j].due_date[1] \in ModelDueDates
           /\ file' = saved
           /\ now' = IF i # 0 THEN t ELSE now
           /\ last' = Call("toggle", task_id, 0, i,
                           i # 0 /\ loaded[i].completed,
                           Len(saved) > Len(file),
                           last.op = "toggle" /\ last.found /\ last.id = task_id)
           /\ UNCHANGED <<deletedIds, logs, background_tasks, manager, loop, wire, db, inflight>>

toggle_complete(adv) == toggle_complete_within(adv, MaxTasks)

(* task_storage.complete_task(task_id): TaskStorage defines toggle_complete *)
(* and no complete_task, so looking the attribute up raises AttributeError  *)
(* before anything is loaded                                                *)
complete_task ==
    \E task_id \in ArgIds :
        /\ last' = [Call("complete_task", task_id, 0,
                         IF load_tasks_raises(file) THEN 0
                         ELSE FirstIndex(load_tasks(file), task_id),
                         FALSE, FALSE, FALSE)
                    EXCEPT !.raised = "AttributeError"]
        /\ UNCHANGED <<file, now, deletedIds, logs, background_tasks, manager, loop, wire, db, inflight>>

get_task_by_id ==
    IF load_tasks_raises(file) THEN Raise("get")
    ELSE \E task_id \in ArgIds :
        LET r == get_task_by_id_result(file, task_id)
        IN /\ last' = Call("get", task_id, 0,
                           IF r = None THEN 0 ELSE FirstIndex(load_tasks(file), task_id),
                           FALSE, FALSE, FALSE)
           /\ UNCHANGED <<file, now, deletedIds, logs, background_tasks, manager, loop, wire, db, inflight>>

call_get_all_tasks ==
    IF load_tasks_raises(file) THEN Raise("get_all")
    ELSE /\ last' = [Call("get_all", 0, 0, 0, FALSE, FALSE, FALSE)
                        EXCEPT !.ret = Some(load_tasks(file))]
         /\ UNCHANGED <<file, now, deletedIds, logs, background_tasks, manager, loop, wire, db, inflight>>

Keywords == {"REVIEW", "task"}

call_search_tasks ==
    IF load_tasks_raises(file) THEN Raise("search")
    ELSE \E keyword \in Keywords :
         /\ last' = [Call("search", 0, 0, 0, FALSE, FALSE, FALSE)
                        EXCEPT !.ret = Some(search_tasks(file, keyword))]
         /\ UNCHANGED <<file, now, deletedIds, logs, background_tasks, manager, loop, wire, db, inflight>>

(* texts that json.loads rejects: an empty file, a truncated document *)
CorruptPayloads == {<<[raw |-> ""]>>, <<[raw |-> "[{"]>>}

(* the text of tasks.json is damaged from outside the store *)
corrupt_file ==
    \E payload \in CorruptPayloads :
        /\ file' = payload
        /\ last' = Call("corrupt", 0, 0, 0, FALSE, FALSE, FALSE)
        /\ UNCHANGED <<now, deletedIds, logs, background_tasks, manager, loop, wire, db, inflight>>

(* ---------------- calls on the audit service ---------------- *)
log_task_created ==
    \E task_id \in {1, 2}, t \in Clock(1) :
        /\ Len(logs) < MaxLogs
        /\ logs' = log(logs, "task.created", Some(task_id), "task", "anonymous",
                       [new |-> [id |-> task_id, title |-> "One-time task"]], <<>>, t)
        /\ now' = t
        /\ last' = Call("log_task_created", task_id, 0, 0, FALSE, FALSE, FALSE)
        /\ UNCHANGED <<file, deletedIds, background_tasks, manager, loop, wire, db, inflight>>

log_task_completed ==
    \E t \in Clock(1) :
        /\ Len(logs) < MaxLogs
        /\ logs' = log(logs, "task.completed", Some(1), "task", "alice",
                       <<>>, [title |-> "One-time task"], t)
        /\ now' = t
        /\ last' = Call("log_task_completed", 1, 0, 0, FALSE, FALSE, FALSE)
        /\ UNCHANGED <<file, deletedIds, background_tasks, manager, loop, wire, db, inflight>>

(* snapshots of a task: JSON values are None or <<value>> *)
OldSnapshots ==
    {<<>>,
     [title |-> Some("One-time task"), priority |-> None],
     [title |-> Some("One-time task"), priority |-> Some("high"), legacy |-> None]}

NewSnapshots ==
    {[title |-> Some("One-time task"), priority |-> None],
     [title |-> Some("Updated Title"), priority |-> Some("high")],
     [title |-> Some("One-time task")]}

log_task_updated ==
    \E old_data \in OldSnapshots, new_data \in NewSnapshots :
        /\ Len(logs) < MaxLogs
        /\ logs' = log(logs, "task.updated", Some(1), "task", "anonymous",
                       task_changes(old_data, new_data), <<>>, now)
        /\ last' = [op |-> "log_task_updated", old_data |-> old_data,
                    new_data |-> new_data]
        /\ UNCHANGED <<file, now, deletedIds, background_tasks, manager, loop, wire, db, inflight>>

clear_logs ==
    /\ logs' = <<>>
    /\ last' = Call("clear_logs", 0, 0, 0, FALSE, FALSE, FALSE)
    /\ UNCHANGED <<file, now, deletedIds, background_tasks, manager, loop, wire, db, inflight>>

get_audit_logs ==
    \E event_type \in {None, Some("task.created"), Some("task.bogus")},
       entity_id \in {None, Some(1)},
       user_id \in {None, Some("alice")},
       page \in {<<100, 0>>, <<1, 1>>} :
        /\ last' = [op |-> "get_audit_logs", event_type |-> event_type,
                    entity_id |-> entity_id, user_id |-> user_id,
                    limit |-> page[1], offset |-> page[2],
                    ret |-> get_audit_logs_result(logs, event_type, entity_id, user_id,
                                                  page[1], page[2])]
        /\ UNCHANGED <<file, now, deletedIds, logs, background_tasks, manager, loop, wire, db, inflight>>

(* ---------------- the websocket ConnectionManager ---------------- *)
(* d[key] = value *)
dict_setitem(d, key, value) ==
    [k \in DOMAIN d \cup {key} |-> IF k = key THEN value ELSE d[k]]

(* del d[key] *)
dict_delitem(d, key) == [k \in DOMAIN d \ {key} |-> d[k]]

SetMin(S) == CHOOSE x \in S : \A y \in S : x <= y

Elements(l) == {l[i] : i \in 1..Len(l)}

(* ConnectionManager.connect after websocket.accept() *)
manager_connect(m, websocket, user_id) ==
    LET active == IF user_id \in DOMAIN m.active_connections
                  THEN m.active_connections
                  ELSE dict_setitem(m.active_connections, user_id, {})
    IN [all_connections |-> m.all_connections \cup {websocket},
        active_connections |->
            dict_setitem(active, user_id, active[user_id] \cup {websocket})]

(* ConnectionManager.disconnect *)
manager_disconnect(m, websocket, user_id) ==
    LET active == m.active_connections
        discarded == IF user_id \in DOMAIN active
                     THEN dict_setitem(active, user_id, active[user_id] \ {websocket})
                     ELSE active
    IN [all_connections |-> m.all_connections \ {websocket},
        active_connections |->
            IF user_id \in DOMAIN discarded /\ discarded[user_id] = {}
            THEN dict_delitem(discarded, user_id)
            ELSE discarded]

(* websocket_endpoint: await manager.connect(websocket, user_id). With     *)
(* quiet, clients connect only while no broadcast is suspended on a send.  *)
connect(quiet) ==
    \E websocket \in Sockets, user_id \in Users :
        /\ loop.endpoints[websocket].pc = "new"
        /\ quiet => \A e \in 1..Len(loop.tasks) : loop.tasks[e].pc # "send_json"
        /\ manager' = manager_connect(manager, websocket, user_id)
        /\ loop' = [loop EXCEPT !.endpoints =
                      [w \in Sockets |-> IF w = websocket
                                         THEN [pc |-> "open", user_id |-> user_id]
                                         ELSE loop.endpoints[w]]]
        /\ UNCHANGED <<file, now, last, deletedIds, logs, background_tasks, wire, db,
                       inflight>>

(* websocket_endpoint: manager.disconnect(websocket, user_id) when the     *)
(* client has gone                                                          *)
disconnect ==
    \E websocket \in Sockets :
        /\ loop.endpoints[websocket].pc = "open"
        /\ manager' = manager_disconnect(manager, websocket,
                                         loop.endpoints[websocket].user_id)
        /\ loop' = [loop EXCEPT !.endpoints =
                      [w \in Sockets |-> IF w = websocket
                                         THEN [pc |-> "closed", user_id |-> ""]
                                         ELSE loop.endpoints[w]]]
        /\ UNCHANGED <<file, now, last, deletedIds, logs, background_tasks, wire, db,
                       inflight>>

RECURSIVE disconnect_each(_, _, _)
disconnect_each(m, disconnected, user_id) ==
    IF disconnected = {} THEN m
    ELSE LET conn == SetMin(disconnected)
         IN disconnect_each(manager_disconnect(m, conn, user_id),
                            disconnected \ {conn}, user_id)

(* what a send_json call hands to a socket: message 0 is a personal        *)
(* message, message e is the notification of the e-th emit_task_event      *)
SendJson(e, websocket) == [message |-> e, websocket |-> websocket, kind |-> "send_json"]
SendFailed(e, websocket) == [message |-> e, websocket |-> websocket, kind |-> "failed"]

RECURSIVE personal_sends(_, _)
personal_sends(connections, failing) ==
    IF connections = {} THEN <<>>
    ELSE LET connection == SetMin(connections)
         IN <<SendJson(0, connection)>>
            \o (IF connection \in failing THEN <<SendFailed(0, connection)>> ELSE <<>>)
            \o personal_sends(connections \ {connection}, failing)

(* ConnectionManager.send_personal_message, run with no other coroutine    *)
(* scheduled while it awaits; the sends to the sockets of failing raise    *)
send_personal_message ==
    \E user_id \in Users, failing \in SUBSET Sockets :
        LET present == user_id \in DOMAIN manager.active_connections
            connections == IF present THEN manager.active_connections[user_id] ELSE {}
        IN /\ failing \subseteq connections
           /\ Cardinality({i \in 1..Len(wire.sent) : wire.sent[i].message = 0})
                 < MaxPersonal
           /\ manager' = disconnect_each(manager, failing, user_id)
           /\ wire' = [wire EXCEPT !.sent = @ \o personal_sends(connections, failing)]
           /\ UNCHANGED <<file, now, last, deletedIds, logs, background_tasks, loop, db,
                          inflight>>

(* ---------------- emit_task_event on the event loop ---------------- *)
(* the frame of one emit_task_event call, with those of notify_task_change *)
(* and broadcast under it: si_used and si_pos are the set iterator of the  *)
(* for loop, connections the subscribers when the loop began               *)
coroutine(task) ==
    [message |-> [type |-> task.event_type, data |-> task.task_data],
     pc |-> "start", si_used |-> 0, si_pos |-> 0, connections |-> {},
     connection |-> 0, disconnected |-> <<>>, kafka_published |-> FALSE,
     raised |-> ""]

(* BackgroundTasks.__call__ once the response is sent: the tasks of the    *)
(* request are put on the event loop                                       *)
background(l, tasks) ==
    [l EXCEPT !.tasks = @ \o [i \in 1..Len(tasks) |-> coroutine(tasks[i])]]

(* the for loop of broadcast from its header on: next() of the set         *)
(* iterator raises RuntimeError when the set has changed size, yields the  *)
(* next connection, which is handed the message, or ends the loop, and the *)
(* failed connections are discarded from all_connections                    *)
broadcast_loop(co, m, e) ==
    LET rest == {c \in m.all_connections : c > co.si_pos}
    IN IF co.si_used # Cardinality(m.all_connections)
       THEN [co |-> [co EXCEPT !.pc = "raised", !.raised = "RuntimeError"],
             manager |-> m, sent |-> <<>>]
       ELSE IF rest = {}
       THEN [co |-> [co EXCEPT !.pc = "publish"],
             manager |-> [m EXCEPT !.all_connections = @ \ Elements(co.disconnected)],
             sent |-> <<>>]
       ELSE [co |-> [co EXCEPT !.pc = "send_json", !.connection = SetMin(rest),
                               !.si_pos = SetMin(rest)],
             manager |-> m, sent |-> <<SendJson(e, SetMin(rest))>>]

(* emit_task_event from its start to its first await: notify_task_change   *)
(* and the head of broadcast. The tasks start in the order they were       *)
(* scheduled.                                                              *)
notify_task_change ==
    \E e \in 1..Len(loop.tasks) :
        /\ loop.tasks[e].pc = "start"
        /\ \A d \in 1..(e - 1) : loop.tasks[d].pc # "start"
        /\ LET co == [loop.tasks[e] EXCEPT
                         !.si_used = Cardinality(manager.all_connections),
                         !.connections = manager.all_connections]
               r == broadcast_loop(co, manager, e)
           IN /\ loop' = [loop EXCEPT !.tasks = list_setitem(loop.tasks, e, r.co)]
              /\ manager' = r.manager
              /\ wire' = [wire EXCEPT !.sent = @ \o r.sent]
        /\ UNCHANGED <<file, now, last, deletedIds, logs, background_tasks, db, inflight>>

(* await connection.send_json(message) returns or raises, and broadcast    *)
(* runs on to its next await                                               *)
send_json_returns ==
    \E e \in 1..Len(loop.tasks), ok \in BOOLEAN :
        /\ loop.tasks[e].pc = "send_json"
        /\ LET co == IF ok THEN loop.tasks[e]
                     ELSE [loop.tasks[e] EXCEPT
                              !.disconnected = Append(@, loop.tasks[e].connection)]
               r == broadcast_loop(co, manager, e)
           IN /\ loop' = [loop EXCEPT !.tasks = list_setitem(loop.tasks, e, r.co)]
              /\ manager' = r.manager
              /\ wire' = [wire EXCEPT !.sent =
                            @ \o (IF ok THEN <<>>
                                  ELSE <<SendFailed(e, loop.tasks[e].connection)>>)
                              \o r.sent]
        /\ UNCHANGED <<file, now, last, deletedIds, logs, background_tasks, db, inflight>>

(* the event types emit_task_event has a Dapr publisher for *)
PublishedTypes == {"task.created", "task.updated", "task.deleted", "task.completed"}

(* what the awaited Dapr publisher does: it returns True on a 200 or 204,  *)
(* False on any other answer or on an error of the request, and raises     *)
(* when the error is outside publish_event's try                           *)
DaprOutcomes == {"true", "false", "raised"}

(* kafka_published after the try of emit_task_event *)
dapr_published(event_type, outcome) ==
    event_type \in PublishedTypes /\ outcome = "true"

(* the direct Kafka path taken whatever the Dapr publish did *)
direct_kafka_always(kafka_published) == TRUE

(* if not kafka_published: the direct Kafka path is taken *)
direct_kafka(kafka_published) == ~kafka_published

Published(e, path, outcome) == [message |-> e, path |-> path, outcome |-> outcome]

(* the Dapr publish returns or raises, and emit_task_event runs to its     *)
(* end: DirectKafkaProducer.publish_task_event returns True or False and   *)
(* raises nothing                                                          *)
publish_task_event_returns ==
    \E e \in 1..Len(loop.tasks), outcome \in DaprOutcomes, kafka \in {"true", "false"} :
        LET co == loop.tasks[e]
            kafka_published == dapr_published(co.message.type, outcome)
        IN /\ co.pc = "publish"
           /\ loop' = [loop EXCEPT !.tasks =
                         list_setitem(loop.tasks, e,
                            [co EXCEPT !.pc = "done",
                                       !.kafka_published = kafka_published])]
           /\ wire' = [wire EXCEPT !.published =
                         @ \o (IF co.message.type \in PublishedTypes
                               THEN <<Published(e, "dapr", outcome)>> ELSE <<>>)
                           \o (IF direct_kafka(kafka_published)
                               THEN <<Published(e, "kafka", kafka)>> ELSE <<>>)]
           /\ UNCHANGED <<file, now, last, deletedIds, logs, background_tasks, manager,
                          db, inflight>>

(* ---------------- the HTTP handlers of /tasks ---------------- *)
(* task.model_dump(mode='json') as the audit service compares it: every     *)
(* JSON value is None (null) or <<value>>                                   *)
snapshot(task) ==
    LET d == model_dump_json(task)
    IN [f \in DOMAIN d |->
          IF f \in {"description", "priority", "due_date", "recurrence", "completed_at"}
          THEN d[f] ELSE <<d[f]>>]

(* background_tasks.add_task(emit_task_event, event_type, task_data) *)
emit_task_event(event_type, task_data) ==
    [func |-> "emit_task_event", event_type |-> event_type, task_data |-> task_data]

(* toggle_task_complete announcing an uncompleted task as task.uncompleted *)
toggle_event_type_uncompleted(task) ==
    IF task.completed THEN "task.completed" ELSE "task.uncompleted"

(* the event type toggle_task_complete announces *)
toggle_event_type(task) ==
    IF task.completed THEN "task.completed" ELSE "task.updated"

(* log_task_audit: the audit entries after the call *)
log_task_audit(l, event_type, task_id, task_data, old_data, t) ==
    IF event_type = "task.created"
    THEN log(l, "task.created", Some(task_id), "task", "anonymous",
             [new |-> task_data], <<>>, t)
    ELSE IF event_type = "task.updated"
    THEN log(l, "task.updated", Some(task_id), "task", "anonymous",
             task_changes(old_data, task_data), <<>>, t)
    ELSE IF event_type = "task.deleted"
    THEN log(l, "task.deleted", Some(task_id), "task", "anonymous",
             [deleted |-> task_data], <<>>, t)
    ELSE IF event_type = "task.completed"
    THEN log(l, "task.completed", Some(task_id), "task", "anonymous",
             <<>>, [title |-> dict_get(task_data, "title")], t)
    ELSE l

(* request bodies of POST /tasks *)
TaskCreates ==
    << [title |-> "One-time task", description |-> None, priority |-> Some("medium"),
        tags |-> <<>>, due_date |-> None],
       [title |-> "Weekly review", description |-> Some("Review weekly goals"),
        priority |-> Some("high"), tags |-> <<"work", "planning">>,
        due_date |-> Some(Date(2025, 12, 29, 495))] >>

(* request bodies of PUT /tasks/{id}, the fields that are set *)
TaskUpdates ==
    << [title |-> "Updated Title"],
       [status |-> "completed"] >>

(* a request that ended in an HTTP error: nothing scheduled, nothing logged *)
HttpError(op, task_id, error) ==
    /\ last' = [Call(op, task_id, 0, 0, FALSE, FALSE, FALSE) EXCEPT !.raised = error]
    /\ background_tasks' = <<>>
    /\ UNCHANGED <<file, now, deletedIds, logs, manager, loop, wire, db, inflight>>

api_create_task_then(emits) ==
    IF load_tasks_raises(file) THEN HttpError("api_create", 0, "ValueError")
    ELSE \E k \in 1..Len(TaskCreates) :
        LET task == TaskCreates[k]
            saved == add_task_tasks(file,
                        [title |-> task.title,
                         description |-> IF TruthyStr(task.description)
                                         THEN task.description ELSE Some(""),
                         priority |-> task.priority, tags |-> task.tags,
                         due_date |-> task.due_date, recurrence |-> None], now)
            new_task == load_tasks(saved)[Len(saved)]
            task_data == snapshot(new_task)
        IN /\ Len(file) < MaxTasks
           /\ get_next_id(file) <= MaxId
           /\ Len(logs) < MaxLogs
           /\ file' = saved
           /\ background_tasks' = <<emit_task_event("task.created", task_data)>>
           /\ logs' = log_task_audit(logs, "task.created", new_task.id, task_data, <<>>, now)
           /\ last' = Call("api_create", new_task.id, k, Len(saved), FALSE, FALSE, FALSE)
           /\ emits > 0 => Len(loop.tasks) < emits
           /\ loop' = IF emits > 0 THEN background(loop, background_tasks') ELSE loop
           /\ UNCHANGED <<now, deletedIds, manager, wire, db, inflight>>

api_create_task == api_create_task_then(0)

api_update_task ==
    IF load_tasks_raises(file) THEN HttpError("api_update", 0, "ValueError")
    ELSE \E task_id \in ArgIds, k \in 1..Len(TaskUpdates) :
        LET old_task == get_task_by_id_result(file, task_id)
            old_data == IF old_task # None THEN snapshot(old_task[1]) ELSE <<>>
            saved == update_task_tasks(file, task_id, TaskUpdates[k], now)
            i == FirstIndex(load_tasks(file), task_id)
        IN IF i = 0 THEN HttpError("api_update", task_id, "HTTP_404")
           ELSE LET task_data == snapshot(load_tasks(saved)[i])
                IN /\ Len(logs) < MaxLogs
                   /\ file' = saved
                   /\ background_tasks' = <<emit_task_event("task.updated", task_data)>>
                   /\ logs' = log_task_audit(logs, "task.updated", task_id, task_data,
                                             old_data, now)
                   /\ last' = Call("api_update", task_id, k, i, FALSE, FALSE, FALSE)
                   /\ UNCHANGED <<now, deletedIds, manager, loop, wire, db, inflight>>

api_delete_task ==
    IF load_tasks_raises(file) THEN HttpError("api_delete", 0, "ValueError")
    ELSE \E task_id \in ArgIds :
        LET task == get_task_by_id_result(file, task_id)
            task_data == IF task # None THEN snapshot(task[1]) ELSE <<>>
            saved == delete_task_tasks(file, task_id)
            success == Len(saved) < Len(file)
        IN IF ~success THEN HttpError("api_delete", task_id, "HTTP_404")
           ELSE /\ Len(logs) < MaxLogs
                /\ file' = saved
                /\ background_tasks' =
                      IF task # None
                      THEN <<emit_task_event("task.deleted",
                                [id |-> <<task_id>>, title |-> <<task[1].title>>])>>
                      ELSE <<>>
                /\ logs' = IF task # None
                           THEN log_task_audit(logs, "task.deleted", task_id, task_data,
                                               <<>>, now)
                           ELSE logs
                /\ last' = Call("api_delete", task_id, 0,
                                FirstIndex(load_tasks(file), task_id), FALSE, FALSE, FALSE)
                /\ UNCHANGED <<now, deletedIds, manager, loop, wire, db, inflight>>

api_toggle_task_complete_then(emits) ==
    IF load_tasks_raises(file) THEN HttpError("api_toggle", 0, "ValueError")
    ELSE \E task_id \in ArgIds :
        LET loaded == load_tasks(file)
            i == FirstIndex(loaded, task_id)
            saved == toggle_complete_tasks(file, task_id, now)
        IN IF i = 0 THEN HttpError("api_toggle", task_id, "HTTP_404")
           ELSE LET task == load_tasks(saved)[i]
                    task_data == snapshot(task)
                    event_type == toggle_event_type(task)
                IN /\ Len(logs) < MaxLogs
                   /\ Len(saved) <= MaxTasks
                   /\ file' = saved
                   /\ background_tasks' = <<emit_task_event(event_type, task_data)>>
                   /\ logs' = log_task_audit(logs, event_type, task_id, task_data, <<>>, now)
                   /\ last' = Call("api_toggle", task_id, 0, i, loaded[i].completed,
                                   Len(saved) > Len(file), FALSE)
                   /\ emits > 0 => Len(loop.tasks) < emits
                   /\ loop' = IF emits > 0 THEN background(loop, background_tasks') ELSE loop
                   /\ UNCHANGED <<now, deletedIds, manager, wire, db, inflight>>

api_toggle_task_complete == api_toggle_task_complete_then(0)

(* ---------------- the MCP task tools ---------------- *)
TaskPriorities == {"high", "medium", "low"}

(* create_task(title, user_id, priority=...) calls of the MCP tool *)
McpCreates ==
    << [title |-> "One-time task", priority |-> "high"],
       [title |-> "Daily standup", priority |-> "urgent"] >>

(* update_task(task_id, user_id, title=..., priority=...) calls of the MCP *)
(* tool: the keywords passed, None for one left out                        *)
McpUpdates ==
    << [title |-> Some("Updated Title"), priority |-> None],
       [title |-> None, priority |-> Some("low")] >>

(* a call of an MCP tool: what its Dapr publish did, and the exception    *)
(* raised or the task returned                                             *)
McpCall(op, task_id, k, outcome, raised, ret) ==
    [op |-> op, id |-> task_id, k |-> k, dapr |-> outcome, raised |-> raised,
     ret |-> ret]

(* audit_service.log_task_updated called with args: it has the required   *)
(* parameters task_id, old_data and new_data, and Python raises TypeError  *)
(* for a call that leaves one of them without an argument                  *)
log_task_updated_call(l, args, t) ==
    IF Len(args) < 3
    THEN [raised |-> "TypeError", logs |-> l]
    ELSE [raised |-> "",
          logs |-> log(l, "task.updated", Some(args[1]), "task", "anonymous",
                       task_changes(args[2], args[3]), <<>>, t)]

(* the MCP tool create_task; its Dapr publish returns or raises *)
mcp_create_task ==
    \E k \in 1..Len(McpCreates), outcome \in DaprOutcomes :
        LET args == McpCreates[k]
            priority == IF args.priority \notin TaskPriorities
                        THEN "medium" ELSE args.priority
            task == [id |-> Len(db) + 1, title |-> args.title, description |-> "",
                     status |-> "pending", priority |-> priority, tags |-> <<>>,
                     updated_at |-> now]
        IN /\ Len(db) < MaxRows
           /\ Len(logs) < MaxLogs
           /\ db' = Append(db, task)
           /\ IF outcome = "raised"
              THEN /\ logs' = logs
                   /\ last' = McpCall("mcp_create", task.id, k, outcome, "Exception", None)
              ELSE /\ logs' = log(logs, "task.created", Some(task.id), "task",
                                  "anonymous",
                                  [new |-> [title |-> task.title,
                                            priority |-> task.priority,
                                            tags |-> task.tags]], <<>>, now)
                   /\ last' = McpCall("mcp_create", task.id, k, outcome, "", Some(task))
           /\ UNCHANGED <<file, now, deletedIds, background_tasks, manager, loop,
                          wire, inflight>>

(* the MCP tool update_task; its Dapr publish returns or raises *)
mcp_update_task ==
    \E task_id \in 1..MaxRows, k \in 1..Len(McpUpdates), outcome \in DaprOutcomes :
        IF task_id > Len(db)
        THEN /\ last' = McpCall("mcp_update", task_id, k, "", "ValueError", None)
             /\ UNCHANGED <<file, now, deletedIds, logs, background_tasks, manager,
                            loop, wire, db, inflight>>
        ELSE LET task == db[task_id]
                 args == McpUpdates[k]
                 title == IF args.title # None THEN args.title[1] ELSE task.title
                 priority == IF args.priority # None
                                /\ args.priority[1] \in TaskPriorities
                             THEN args.priority[1] ELSE task.priority
                 changes ==
                     [key \in {f \in {"title", "priority"} :
                                  /\ args[f] # None
                                  /\ f = "priority" => args[f][1] \in TaskPriorities}
                         |-> [from |-> task[key], to |-> args[key][1]]]
                 updated == [id |-> task.id, title |-> title,
                             description |-> task.description,
                             status |-> task.status, priority |-> priority,
                             tags |-> task.tags, updated_at |-> now]
                 audit == log_task_updated_call(logs, <<task.id, changes>>, now)
             IN /\ db' = list_setitem(db, task_id, updated)
                /\ IF outcome = "raised"
                   THEN /\ logs' = logs
                        /\ last' = McpCall("mcp_update", task_id, k, outcome, "Exception", None)
                   ELSE /\ logs' = audit.logs
                        /\ last' = McpCall("mcp_update", task_id, k, outcome, audit.raised,
                                           IF audit.raised = "" THEN Some(updated)
                                           ELSE None)
                /\ UNCHANGED <<file, now, deletedIds, background_tasks, manager, loop,
                               wire, inflight>>

(* the store under every call, with the two basic inputs and a running clock *)
Next ==
    \/ add_task({1, 2}, 1)
    \/ update_task(1..Len(Updates), 1)
    \/ delete_task(FALSE)
    \/ toggle_complete(1)

Spec == Init /\ [][Next]_vars

(* the store under add_task and toggle_complete over every recurrence       *)
(* pattern, all calls made within one clock instant                         *)
NextRecur ==
    \/ add_task(1..Len(TaskInputs), 0)
    \/ toggle_complete(0)

SpecRecur == Init /\ [][NextRecur]_vars

(* the store under add_task, delete_task and toggle_complete, the deleted   *)
(* ids remembered, all calls made within one clock instant                  *)
NextDelete ==
    \/ add_task({1, 2}, 0)
    \/ delete_task(TRUE)
    \/ toggle_complete(0)

SpecDelete == Init /\ [][NextDelete]_vars

(* the store under add_task and update_task, with a running clock *)
NextUpdate ==
    \/ add_task({2}, 1)
    \/ update_task({1, 2, 3}, 1)

SpecUpdate == Init /\ [][NextUpdate]_vars

(* the store under add_task and the calls that look a task up by its id,   *)
(* all calls made within one clock instant                                  *)
NextLookup ==
    \/ add_task({1, 2}, 0)
    \/ get_task_by_id
    \/ update_task({1, 3}, 0)
    \/ toggle_complete(0)

SpecLookup == Init /\ [][NextLookup]_vars

(* the store under every operation that loads, on a file that can be       *)
(* damaged at any moment                                                    *)
NextCorrupt ==
    \/ add_task({1}, 0)
    \/ call_get_all_tasks
    \/ get_task_by_id
    \/ update_task({1}, 0)
    \/ delete_task(FALSE)
    \/ toggle_complete(0)
    \/ call_search_tasks
    \/ corrupt_file

SpecCorrupt == Init /\ [][NextCorrupt]_vars

(* the audit service under log calls, clear_logs and queries *)
NextAudit ==
    \/ log_task_created
    \/ log_task_completed
    \/ clear_logs
    \/ get_audit_logs

SpecAudit == Init /\ [][NextAudit]_vars

(* the audit service recording updates, all within one clock instant *)
NextAuditDiff ==
    \/ log_task_updated
    \/ clear_logs

SpecAuditDiff == Init /\ [][NextAuditDiff]_vars

(* completing through the call the chat COMPLETE action and the tests make *)
NextComplete ==
    \/ add_task({1, 2}, 0)
    \/ toggle_complete(1)
    \/ complete_task

SpecComplete == Init /\ [][NextComplete]_vars

(* update_task calls that overlap between their load and their save *)
NextRace ==
    \/ add_task({1, 2}, 0)
    \/ update_task_load({1, 3})
    \/ update_task_save(1)

SpecRace == Init /\ [][NextRace]_vars

(* one or two recurring tasks toggled back and forth *)
NextSuccessors ==
    \/ add_task({2, 6}, 0)
    \/ toggle_complete_within(1, 1 + MaxSuccessors)

SpecSuccessors == Init /\ [][NextSuccessors]_vars

(* the HTTP handlers that change tasks, with the audit log *)
NextApi ==
    \/ api_create_task
    \/ api_update_task
    \/ api_delete_task
    \/ api_toggle_task_complete

SpecApi == Init /\ [][NextApi]_vars

(* subscribers that connect while no send is pending and then stay, and    *)
(* the notifications of created tasks                                      *)
NextBroadcast ==
    \/ connect(TRUE)
    \/ api_create_task_then(MaxEmits)
    \/ notify_task_change
    \/ send_json_returns
    \/ publish_task_event_returns

SpecBroadcast == Init /\ [][NextBroadcast]_vars

(* the ConnectionManager under clients that come and go at any moment *)
NextWs ==
    \/ connect(FALSE)
    \/ disconnect
    \/ send_personal_message
    \/ api_create_task_then(1)
    \/ notify_task_change
    \/ send_json_returns
    \/ publish_task_event_returns

SpecWs == Init /\ [][NextWs]_vars

(* a task created and toggled over HTTP with nobody subscribed, and the    *)
(* two notifications published to the event bus                            *)
NextEmit ==
    \/ api_create_task_then(1)
    \/ api_toggle_task_complete_then(2)
    \/ notify_task_change
    \/ publish_task_event_returns

SpecEmit == Init /\ [][NextEmit]_vars

(* tasks created over HTTP and tasks created and updated through the MCP   *)
(* tools, which share the audit service                                    *)
NextMcp ==
    \/ api_create_task
    \/ mcp_create_task
    \/ mcp_update_task

SpecMcp == Init /\ [][NextMcp]_vars

(* ---------------- filter_tasks and sort_tasks on their own ---------------- *)
(* the lists of at most n tasks built from the given keyword dicts, the     *)
(* ids being the positions                                                  *)
RECURSIVE TaskLists(_, _)
TaskLists(profiles, n) ==
    IF n = 0 THEN {<<>>}
    ELSE LET shorter == TaskLists(profiles, n - 1)
         IN shorter \cup
            {Append(l, Task(dict_update(p, [id |-> Len(l) + 1]), 0)) :
                l \in {x \in shorter : Len(x) = n - 1}, p \in profiles}

FilterProfiles ==
    {[title |-> "One-time task", tags |-> tags, priority |-> priority,
      completed |-> completed] :
        tags \in {<<>>, <<"work", "planning">>, <<"Work">>},
        priority \in {None, Some("high")},
        completed \in BOOLEAN}

FilterLists == TaskLists(FilterProfiles, MaxFilterLen)

(* the calls of filter_tasks that are made, not yet returned *)
FilterCalls ==
    {[op |-> "filter", tasks |-> tasks, status |-> status, priority |-> priority,
      tag |-> tag, done |-> FALSE, ret |-> <<>>] :
        tasks \in FilterLists,
        status \in {None, Some("complete"), Some("incomplete")},
        priority \in {None, Some("high")},
        tag \in {None, Some("work"), Some("Work")}}

call_filter_tasks ==
    /\ last.op = "filter" /\ ~last.done
    /\ last' = [last EXCEPT !.done = TRUE,
                            !.ret = filter_tasks(last.tasks, last.status,
                                                 last.priority, last.tag)]
    /\ UNCHANGED <<file, now, deletedIds, logs, background_tasks, manager, loop, wire, db, inflight>>

SortProfiles ==
    {[title |-> "Weekly review", priority |-> Some("high"), due_date |-> due_date] :
        due_date \in {None, Some(Date(2025, 12, 29, 540)), Some(Date(2025, 12, 29, 495)),
                      Some(Date(2024, 1, 31, 870))}}
      \cup
    {[title |-> "Daily standup", due_date |-> due_date] :
        due_date \in {None, Some(Date(2025, 12, 29, 540)), Some(Date(2025, 12, 29, 495)),
                      Some(Date(2024, 1, 31, 870))}}

SortLists == TaskLists(SortProfiles, MaxSortLen)

(* the calls of sort_tasks that are made, not yet returned *)
SortCalls ==
    {[op |-> "sort", tasks |-> tasks, sort_by |-> sort_by, done |-> FALSE, ret |-> <<>>] :
        tasks \in SortLists, sort_by \in {"due-date", "priority", "title", "created"}}

call_sort_tasks ==
    /\ last.op = "sort" /\ ~last.done
    /\ last' = [last EXCEPT !.done = TRUE, !.ret = sort_tasks(last.tasks, last.sort_by)]
    /\ UNCHANGED <<file, now, deletedIds, logs, background_tasks, manager, loop, wire, db, inflight>>

(* a call of filter_tasks or of sort_tasks on a list of tasks *)
InitQuery ==
    /\ file = <<>>
    /\ now = 0
    /\ last \in FilterCalls \cup SortCalls
    /\ deletedIds = {}
    /\ logs = <<>>
    /\ background_tasks = <<>>
    /\ manager = [active_connections |-> EmptyDict, all_connections |-> {}]
    /\ loop = [endpoints |-> [websocket \in Sockets |-> [pc |-> "new", user_id |-> ""]],
               tasks |-> <<>>]
    /\ wire = [sent |-> <<>>, published |-> <<>>]
    /\ db = <<>>
    /\ inflight = <<>>

NextQuery ==
    \/ call_filter_tasks
    \/ call_sort_tasks

SpecQuery == InitQuery /\ [][NextQuery]_vars

(* ---------------- the recurrence calculator on its own ---------------- *)
(* the due dates the calculator is called with: leap, common and century    *)
(* years, every month, the first, a middle and the last days of a month     *)
CalcDates ==
    {d \in {Date(y, m, dd, tod) : y \in {2024, 2025, 2100}, m \in 1..12,
                                  dd \in {1, 15, 28, 29, 30, 31}, tod \in {0, 870}} :
        d.day <= monthrange(d.year, d.month)}

(* the calls of the calculator that are made, not yet returned *)
CalcCalls ==
    {[op |-> "calc", due |-> current_due, recurrence |-> recurrence,
      done |-> FALSE, ret |-> None] :
        current_due \in CalcDates, recurrence \in Recurrences \cup {"biweekly"}}

call_calculate_next_due_date ==
    /\ last.op = "calc" /\ ~last.done
    /\ last' = [last EXCEPT !.done = TRUE,
                            !.ret = calculate_next_due_date(last.due, last.recurrence)]
    /\ UNCHANGED <<file, now, deletedIds, logs, background_tasks, manager, loop, wire, db, inflight>>

(* a call of the calculator *)
InitCalc ==
    /\ file = <<>>
    /\ now = 0
    /\ last \in CalcCalls
    /\ deletedIds = {}
    /\ logs = <<>>
    /\ background_tasks = <<>>
    /\ manager = [active_connections |-> EmptyDict, all_connections |-> {}]
    /\ loop = [endpoints |-> [websocket \in Sockets |-> [pc |-> "new", user_id |-> ""]],
               tasks |-> <<>>]
    /\ wire = [sent |-> <<>>, published |-> <<>>]
    /\ db = <<>>
    /\ inflight = <<>>

NextCalc == call_calculate_next_due_date

SpecCalc == InitCalc /\ [][NextCalc]_vars

(* the collection as get_all_tasks returns it *)
get_all_tasks == load_tasks(file)

TypeOK ==
    /\ now \in 0..MaxTime
    /\ Len(file) <= MaxTasks
    /\ deletedIds \subseteq 1..MaxId

(* ======================= claims ======================= *)
Before == load_tasks(file)
After == load_tasks(file')

(* C1: after any sequence of add, update, delete and toggle_complete calls *)
(* on a store that starts empty, no two tasks of the persisted collection  *)
(* have the same id.                                                       *)
C1_UniqueIds ==
    \A i, j \in 1..Len(get_all_tasks) :
        i # j => get_all_tasks[i].id # get_all_tasks[j].id

(* C2: update_task, whatever fields are passed to it, never changes the id *)
(* of the updated task or of any other task.                               *)
C2_UpdateKeepsIds ==
    [][last'.op = "update" =>
        /\ Len(After) = Len(Before)
        /\ \A i \in 1..Len(Before) : After[i].id = Before[i].id]_vars

(* C3: add_task assigns id 1 to the first task of an empty collection and  *)
(* the greatest id plus one otherwise, returns it, and appends the task at *)
(* the end of the collection; so adds on a collection whose ids are 1..n   *)
(* in order leave ids 1..n+1 in order, as get_all_tasks returns them.      *)
C3_AddAppendsNextId ==
    [][last'.op = "add" =>
        /\ Len(After) = Len(Before) + 1
        /\ SubSeq(After, 1, Len(Before)) = Before
        /\ After[Len(After)].id =
              (IF Before = <<>> THEN 1 ELSE SetMax(Ids(Before)) + 1)
        /\ last'.id = After[Len(After)].id
        /\ (\A i \in 1..Len(Before) : Before[i].id = i)
              => (\A i \in 1..Len(After) : After[i].id = i)]_vars

(* C3 witness: consecutive adds filled the store with ids 1..MaxTasks in   *)
(* insertion order.                                                        *)
C3_Witness ==
    /\ last.op = "add"
    /\ Len(get_all_tasks) = MaxTasks
    /\ last.id = MaxTasks
    /\ \A i \in 1..Len(get_all_tasks) : get_all_tasks[i].id = i

(* C4 as claimed: an id of a task that delete_task removed is never given  *)
(* to a task added later, or to a successor: no task of the collection     *)
(* carries a deleted id.                                                   *)
C4_NeverReusesDeletedId ==
    \A i \in 1..Len(get_all_tasks) : get_all_tasks[i].id \notin deletedIds

(* C4 amended: the id given to an added task or to a successor is greater  *)
(* than every id in the collection at that moment, so a deleted id comes   *)
(* back only when no remaining task has that id or a greater one.          *)
C4_NewIdAboveLiveIds ==
    [][Len(After) > Len(Before) =>
        LET new_id == After[Len(After)].id
        IN /\ \A y \in Ids(Before) : y < new_id
           /\ new_id \in deletedIds => \A y \in Ids(Before) : y < new_id]_vars

(* C4 witness: after a deletion an add took an id that is not a deleted    *)
(* one, a task with a greater id than the deleted one being in the store.  *)
C4_Witness ==
    /\ last.op = "add"
    /\ deletedIds # {}
    /\ last.id \notin deletedIds
    /\ Len(get_all_tasks) >= 2
    /\ \E d \in deletedIds : d < get_all_tasks[1].id

(* ---- the recurrence rule, stated on day numbers ---- *)
CumDays == <<0, 31, 59, 90, 120, 151, 181, 212, 243, 273, 304, 334>>

DaysIn(y, m) ==
    (IF m = 12 THEN 31 ELSE CumDays[m + 1] - CumDays[m])
        + (IF m = 2 /\ IsLeap(y) THEN 1 ELSE 0)

toordinal(d) ==
    (d.year - 1) * 365 + ((d.year - 1) \div 4) - ((d.year - 1) \div 100)
        + ((d.year - 1) \div 400)
        + CumDays[d.month] + (IF d.month > 2 /\ IsLeap(d.year) THEN 1 ELSE 0)
        + d.day

(* n is the due date d advanced by the recognised pattern r *)
IsAdvanced(d, r, n) ==
    /\ n.tod = d.tod
    /\ n.month \in 1..12
    /\ n.day \in 1..DaysIn(n.year, n.month)
    /\ r = "daily" => toordinal(n) = toordinal(d) + 1
    /\ r = "weekly" => toordinal(n) = toordinal(d) + 7
    /\ r = "monthly" =>
          /\ n.year * 12 + n.month = d.year * 12 + d.month + 1
          /\ n.day = Min(d.day, DaysIn(n.year, n.month))

Recognised(task) ==
    task.recurrence # None /\ task.recurrence[1] \in Recurrences

(* a toggle_complete call that found its task incomplete *)
Completing == last'.op = "toggle" /\ last'.found /\ ~Before[last'.idx].completed

(* C5: toggle_complete moving a task with a recognised recurrence and a    *)
(* due date from incomplete to complete appends exactly one successor: its *)
(* id is greater than every id of the collection, its title, description,  *)
(* priority, tags and recurrence are the original's, its due date is the   *)
(* original's advanced by the rule, it is not completed; the toggled task  *)
(* is stored as completed.                                                 *)
C5_CompletingRecurringAppendsSuccessor ==
    [][Completing /\ Recognised(Before[last'.idx])
            /\ Before[last'.idx].due_date # None =>
        LET i == last'.idx
            task == Before[i]
            succ == After[Len(After)]
        IN /\ Len(After) = Len(Before) + 1
           /\ \A j \in 1..Len(Before) : j # i => After[j] = Before[j]
           /\ After[i].completed /\ After[i].id = task.id
           /\ \A y \in Ids(Before) : y < succ.id
           /\ succ.title = task.title
           /\ succ.description = task.description
           /\ succ.priority = task.priority
           /\ succ.tags = task.tags
           /\ succ.recurrence = task.recurrence
           /\ succ.due_date # None
           /\ IsAdvanced(task.due_date[1], task.recurrence[1], succ.due_date[1])
           /\ ~succ.completed]_vars

(* C5 witness: completing the monthly task due on 31 January 2024 appended *)
(* its successor, due on 29 February.                                      *)
C5_Witness ==
    /\ last.op = "toggle" /\ last.found /\ ~last.was /\ last.succ
    /\ get_all_tasks[last.idx].completed
    /\ get_all_tasks[last.idx].recurrence = Some("monthly")
    /\ get_all_tasks[Len(get_all_tasks)].due_date = Some(Date(2024, 2, 29, 870))

(* C6: completing a task that has no recurrence, or a recurrence and no    *)
(* due date, or a recurrence other than daily, weekly, monthly (for which  *)
(* the calculator returns no date) creates no successor: the task is       *)
(* stored as completed and the collection keeps its length.                *)
C6_NoSuccessorWithoutRecurrenceOrDueDate ==
    [][Completing /\ (~Recognised(Before[last'.idx])
                        \/ Before[last'.idx].due_date = None) =>
        LET i == last'.idx
            task == Before[i]
        IN /\ Len(After) = Len(Before)
           /\ After[i].completed
           /\ \A j \in 1..Len(Before) : j # i => After[j] = Before[j]
           /\ (task.recurrence # None /\ task.due_date # None) =>
                 calculate_next_due_date(task.due_date[1], task.recurrence[1]) = None]_vars

(* C6 witness: the task with the unrecognised pattern and a due date was   *)
(* completed, beside another task, and nothing was appended.               *)
C6_Witness ==
    /\ last.op = "toggle" /\ last.found /\ ~last.was /\ ~last.succ
    /\ Len(get_all_tasks) = 2
    /\ get_all_tasks[last.idx].completed
    /\ get_all_tasks[last.idx].recurrence = Some("biweekly")
    /\ get_all_tasks[last.idx].due_date # None

(* two toggle_complete calls in succession that found the same id *)
SecondToggle ==
    /\ last.op = "toggle" /\ last.found
    /\ last'.op = "toggle" /\ last'.found /\ last'.id = last.id

(* C7 as claimed: two toggle_complete calls in succession on the same id   *)
(* return the task to its original completion state and the second call    *)
(* creates no successor.                                                   *)
C7_SecondToggleNeverAppends ==
    [][SecondToggle =>
        /\ After[last'.idx].completed = last.was
        /\ Len(After) = Len(Before)]_vars

(* C7 amended: two toggle_complete calls in succession on the same id      *)
(* return the task to its original completion state; the second call       *)
(* creates no successor when the task was incomplete before the first; and *)
(* a toggle that moves a task from complete to incomplete never adds a     *)
(* task.                                                                   *)
C7_ToggleTwiceRestores ==
    [][/\ SecondToggle =>
            /\ After[last'.idx].completed = last.was
            /\ ~last.was => Len(After) = Len(Before)
       /\ (last'.op = "toggle" /\ last'.found /\ Before[last'.idx].completed) =>
            /\ Len(After) = Len(Before)
            /\ ~After[last'.idx].completed]_vars

(* C7 witness: a recurring task with a due date was toggled complete and   *)
(* at once incomplete again.                                               *)
C7_Witness ==
    /\ last.op = "toggle" /\ last.found /\ last.rep /\ last.was /\ ~last.succ
    /\ ~get_all_tasks[last.idx].completed
    /\ Recognised(get_all_tasks[last.idx])
    /\ get_all_tasks[last.idx].due_date # None

(* C8: a task has completed_at set if and only if it is completed.         *)
C8_CompletedAtIffCompleted ==
    \A i \in 1..Len(get_all_tasks) :
        (get_all_tasks[i].completed_at # None) <=> get_all_tasks[i].completed

(* C9: with a clock that never goes backwards every stored task has        *)
(* updated_at >= created_at, and update_task and toggle_complete leave the *)
(* task they changed with updated_at at the time of the call, whatever     *)
(* updated_at the caller passed.                                           *)
C9_UpdatedAtNotBeforeCreatedAt ==
    /\ \A i \in 1..Len(get_all_tasks) :
          get_all_tasks[i].updated_at >= get_all_tasks[i].created_at
    /\ (last.op \in {"update", "toggle"} /\ last.found) =>
          get_all_tasks[last.idx].updated_at = now

TaskFields ==
    {"id", "user_id", "title", "description", "completed", "priority", "tags",
     "due_date", "recurrence", "created_at", "updated_at", "completed_at"}

(* an update_task call that found its task *)
Updating == last'.op = "update" /\ last'.found

(* C10 as claimed: after update_task on an existing id the task has every  *)
(* passed field at the passed value, every field that was not passed,      *)
(* other than updated_at, at its previous value, and every other task is   *)
(* unchanged, its position included.                                       *)
C10_UpdateSetsEveryPassedField ==
    [][Updating =>
        LET i == last'.idx
            u == Updates[last'.k]
        IN /\ Len(After) = Len(Before)
           /\ \A f \in TaskFields \cap DOMAIN u : After[i][f] = u[f]
           /\ \A f \in TaskFields \ (DOMAIN u \cup {"updated_at"}) :
                 After[i][f] = Before[i][f]
           /\ \A j \in 1..Len(Before) : j # i => After[j] = Before[j]]_vars

(* C10 amended: after update_task on an existing id the task has every     *)
(* passed field other than updated_at at the passed value, updated_at at   *)
(* the time of the call, every other field at its previous value, and      *)
(* every other task is unchanged, its position included.                   *)
C10_PartialUpdate ==
    [][Updating =>
        LET i == last'.idx
            u == Updates[last'.k]
        IN /\ Len(After) = Len(Before)
           /\ \A f \in (TaskFields \cap DOMAIN u) \ {"updated_at"} : After[i][f] = u[f]
           /\ After[i].updated_at = now'
           /\ \A f \in TaskFields \ (DOMAIN u \cup {"updated_at"}) :
                 After[i][f] = Before[i][f]
           /\ \A j \in 1..Len(Before) : j # i => After[j] = Before[j]]_vars

(* C10 witness: the second of two tasks, one with a description, high      *)
(* priority and tags, was given a new title with a stale updated_at while  *)
(* the clock stood at 1.                                                   *)
C10_Witness ==
    /\ last.op = "update" /\ last.found /\ last.k = 2
    /\ Len(get_all_tasks) = 2
    /\ now = 1
    /\ get_all_tasks[last.idx].title = "Updated Title"
    /\ get_all_tasks[last.idx].description = Some("Review")
    /\ get_all_tasks[last.idx].updated_at = 1

(* C11: for an id that no task of the collection has, get_task_by_id,      *)
(* update_task and toggle_complete return None, raise nothing and leave    *)
(* the persisted collection exactly as it was.                             *)
C11_NotFoundLeavesFileAlone ==
    [][(last'.op \in {"get", "update", "toggle"} /\ last'.id \notin Ids(Before)) =>
        /\ ~last'.found
        /\ last'.raised = ""
        /\ file' = file]_vars

(* C11 witness: toggle_complete was called with an id that neither of the  *)
(* two stored tasks has, and found nothing.                                *)
C11_Witness ==
    /\ last.op = "toggle" /\ last.id = NoSuchId /\ ~last.found
    /\ Len(get_all_tasks) = 2
    /\ NoSuchId \notin Ids(get_all_tasks)

(* C12: delete_task returns true exactly when a task with the id was in    *)
(* the collection; when it returns true that task and only that task is    *)
(* removed and the others keep their order; when it returns false the      *)
(* persisted collection is unchanged.                                      *)
C12_DeleteRemovesOnlyThatTask ==
    [][last'.op = "delete" =>
        LET i == FirstIndex(Before, last'.id)
        IN /\ last'.found <=> last'.id \in Ids(Before)
           /\ last'.found =>
                 After = [j \in 1..(Len(Before) - 1) |->
                             IF j < i THEN Before[j] ELSE Before[j + 1]]
           /\ ~last'.found => file' = file]_vars

(* C13: for every due date, calculate_next_due_date keeps the time of day  *)
(* and advances the date by the rule: daily by 1 day, weekly by 7 days,    *)
(* monthly to the same day of the next calendar month, clamped to the last *)
(* day of that month, December rolling over to January of the next year.   *)
C13_NextDueDateFollowsRule ==
    (last.op = "calc" /\ last.done /\ last.recurrence \in Recurrences) =>
        /\ last.ret # None
        /\ IsAdvanced(last.due, last.recurrence, last.ret[1])

(* C13 witness: the monthly successor of 31 December 2025, 14:30, is 31    *)
(* January 2026, 14:30.                                                    *)
C13_Witness ==
    /\ last.op = "calc" /\ last.done /\ last.recurrence = "monthly"
    /\ last.due = Date(2025, 12, 31, 870)
    /\ last.ret = Some(Date(2026, 1, 31, 870))

StoreOps == {"add", "get_all", "get", "update", "delete", "toggle", "search"}

(* C14: when the task file holds a text that is no JSON document, every    *)
(* store operation that loads (add, get_all, get_by_id, update, delete,    *)
(* toggle_complete, search) ends in the corrupt-storage error ValueError,  *)
(* returns no collection, and leaves the file unchanged.                   *)
C14_CorruptFileRaises ==
    [][(file \in CorruptPayloads /\ last'.op \in StoreOps) =>
        /\ last'.raised = "ValueError"
        /\ last'.ret = None
        /\ file' = file]_vars

(* C14 witness: add_task was called on a truncated file and ended in the   *)
(* error, the file still holding the truncated text.                       *)
C14_Witness ==
    /\ last.op = "add" /\ last.raised = "ValueError"
    /\ file = <<[raw |-> "[{"]>>

(* the task has a tag equal to the argument when letter case is ignored *)
HasTagIgnoringCase(task, tag) ==
    \E i \in 1..Len(task.tags) : lower(task.tags[i]) = lower(tag)

(* C15: filter_tasks keeps exactly the tasks that pass every given         *)
(* predicate, in the input order: status complete or incomplete, the       *)
(* priority, and a tag equal to the argument when letter case is ignored   *)
(* on both sides.                                                          *)
C15_FilterIgnoresTagCase ==
    (last.op = "filter" /\ last.done) =>
        last.ret = SelectSeq(last.tasks, LAMBDA task :
            /\ last.status = Some("complete") => task.completed
            /\ last.status = Some("incomplete") => ~task.completed
            /\ last.priority # None => task.priority = last.priority
            /\ last.tag # None => HasTagIgnoringCase(task, last.tag[1]))

(* C16: sort_tasks(tasks, "due-date") returns a permutation of its input   *)
(* in which every task with a due date comes before every task without     *)
(* one, the tasks with a due date are in ascending due-date order, and the *)
(* tasks without a due date keep their original relative order.            *)
C16_SortByDueDate ==
    (last.op = "sort" /\ last.done /\ last.sort_by = "due-date") =>
        LET in == last.tasks
            out == last.ret
            n == Len(out)
        IN /\ Len(out) = Len(in)
           /\ \A i \in 1..Len(in) : \E p \in 1..n : out[p] = in[i]
           /\ \A p, q \in 1..n :
                 (p < q /\ out[p].due_date = None) => out[q].due_date = None
           /\ \A p, q \in 1..n :
                 (p < q /\ out[q].due_date # None) =>
                    LET a == out[p].due_date[1]
                        b == out[q].due_date[1]
                    IN toordinal(a) * 1440 + a.tod <= toordinal(b) * 1440 + b.tod
           /\ \A p, q \in 1..n :
                 (p < q /\ out[p].due_date = None) => out[p].id < out[q].id

(* C16 witness: three tasks, the first without a due date, the other two   *)
(* with due dates in descending order, were sorted by due date.            *)
C16_Witness ==
    /\ last.op = "sort" /\ last.done /\ last.sort_by = "due-date"
    /\ Len(last.tasks) = 3
    /\ last.tasks[1].due_date = None
    /\ last.tasks[2].due_date = Some(Date(2025, 12, 29, 540))
    /\ last.tasks[3].due_date = Some(Date(2024, 1, 31, 870))
    /\ last.ret[1].id = 3 /\ last.ret[2].id = 2 /\ last.ret[3].id = 1

LogOps == {"log_task_created", "log_task_updated", "log_task_completed"}

(* C17: the audit log is append-only with sequential ids: the entries have *)
(* ids 1..n in the order they were recorded, a log call adds one entry at  *)
(* the end and changes or removes no earlier entry, and a query changes    *)
(* nothing.                                                                *)
C17_AuditLogAppendOnly ==
    [][/\ \A i \in 1..Len(logs') : logs'[i].id = Some(i)
       /\ last'.op \in LogOps =>
             /\ Len(logs') = Len(logs) + 1
             /\ SubSeq(logs', 1, Len(logs)) = logs
       /\ last'.op = "get_audit_logs" => logs' = logs]_vars

(* C17 witness: three log calls in a row recorded entries 1, 2, 3.         *)
C17_Witness ==
    /\ last.op = "log_task_completed"
    /\ Len(logs) = 3
    /\ logs[1].id = Some(1) /\ logs[2].id = Some(2) /\ logs[3].id = Some(3)
    /\ logs[1].event_type = "task.created"

(* the changes payload of the entry the last log_task_updated recorded *)
RecordedChanges == logs[Len(logs)].changes

(* C18 as claimed: log_task_updated records a changes payload whose keys   *)
(* are exactly the fields of either snapshot whose values differ, a field  *)
(* that only one snapshot has being a field whose values differ; each key  *)
(* is mapped to {old: old value, new: new value}.                          *)
C18_ChangesAreTheDifferingFields ==
    last.op = "log_task_updated" =>
        LET old == last.old_data
            new == last.new_data
        IN /\ DOMAIN RecordedChanges =
                 {key \in DOMAIN old \cup DOMAIN new :
                    \/ key \notin DOMAIN old
                    \/ key \notin DOMAIN new
                    \/ old[key] # new[key]}
           /\ \A key \in DOMAIN RecordedChanges :
                 RecordedChanges[key] = [old |-> dict_get(old, key), new |-> dict_get(new, key)]

(* C18 amended: the keys of the changes payload are exactly the fields of  *)
(* either snapshot whose values differ when a field missing from a         *)
(* snapshot counts as null there: a field that is null in one snapshot and *)
(* missing from the other is omitted, like a field equal in both; each key *)
(* is mapped to {old: old value, new: new value}, null for a missing one.  *)
C18_ChangesTreatMissingAsNull ==
    last.op = "log_task_updated" =>
        LET old == last.old_data
            new == last.new_data
            value(d, key) == IF key \in DOMAIN d THEN d[key] ELSE None
        IN /\ \A key \in DOMAIN old \cup DOMAIN new :
                 key \in DOMAIN RecordedChanges <=> value(old, key) # value(new, key)
           /\ DOMAIN RecordedChanges \subseteq DOMAIN old \cup DOMAIN new
           /\ \A key \in DOMAIN RecordedChanges :
                 /\ RecordedChanges[key].old = value(old, key)
                 /\ RecordedChanges[key].new = value(new, key)
                 /\ DOMAIN RecordedChanges[key] = {"old", "new"}

(* C18 witness: an update was recorded with an empty old snapshot and a    *)
(* new one holding a title and a null priority: the title alone is in the  *)
(* payload.                                                                *)
C18_Witness ==
    /\ last.op = "log_task_updated"
    /\ last.old_data = <<>>
    /\ last.new_data = [title |-> Some("One-time task"), priority |-> None]
    /\ DOMAIN RecordedChanges = {"title"}
    /\ RecordedChanges.title = [old |-> None, new |-> Some("One-time task")]

(* the entry passes every filter given to the last query *)
PassesGivenFilters(e) ==
    /\ last.event_type # None => e.event_type = last.event_type[1]
    /\ last.entity_id # None => e.entity_id = last.entity_id
    /\ last.user_id # None => e.user_id = last.user_id[1]

ApiOps == {"api_create", "api_update", "api_delete", "api_toggle"}

(* C20: every successful mutation made through the HTTP handlers (create,  *)
(* update, delete, toggle-complete) schedules exactly one notification,    *)
(* whose event type is one of task.created, task.updated, task.deleted,    *)
(* task.completed; a request that ends in not-found schedules none,        *)
(* records no audit entry and leaves the collection alone.                 *)
C20_OneNotificationPerMutation ==
    [][last'.op \in ApiOps =>
        /\ last'.raised = "" =>
              /\ Len(background_tasks') = 1
              /\ background_tasks'[1].func = "emit_task_event"
              /\ background_tasks'[1].event_type \in
                    {"task.created", "task.updated", "task.deleted", "task.completed"}
        /\ last'.raised = "HTTP_404" =>
              /\ last'.id \notin Ids(Before)
              /\ background_tasks' = <<>>
              /\ logs' = logs
              /\ file' = file
        /\ (last'.op # "api_create" /\ last'.id \notin Ids(Before)) =>
              last'.raised = "HTTP_404"]_vars

(* C20 witness: a toggle request moved a completed task back to incomplete *)
(* and scheduled one notification, of type task.updated.                   *)
C20_Witness ==
    /\ last.op = "api_toggle" /\ last.raised = "" /\ last.was
    /\ Len(background_tasks) = 1
    /\ background_tasks[1].event_type = "task.updated"
    /\ ~get_all_tasks[last.idx].completed

(* the tasks of the collection f that look like successors of task: same   *)
(* title and recurrence, the due date advanced once                        *)
SuccessorsOf(f, task) ==
    {j \in 1..Len(f) :
        /\ f[j].title = task.title
        /\ f[j].recurrence = task.recurrence
        /\ f[j].due_date = calculate_next_due_date(task.due_date[1], task.recurrence[1])}

(* C30: for a recurring task with a due date, every incomplete-to-complete *)
(* transition appends exactly one successor, with the title and recurrence *)
(* of the task and its due date advanced once, and no other toggle of it   *)
(* appends or removes one: the successors that exist for the task are as   *)
(* many as its incomplete-to-complete transitions, the second like the     *)
(* first.                                                                  *)
C30_SuccessorPerCompletion ==
    [][(last'.op = "toggle" /\ last'.found
            /\ TruthyStr(Before[last'.idx].recurrence)
            /\ TruthyDate(Before[last'.idx].due_date)
            /\ Before[last'.idx].due_date[1] \in InputDates) =>
          LET task == Before[last'.idx]
              n == Cardinality(SuccessorsOf(Before, task))
          IN /\ Cardinality(SuccessorsOf(After, task)) = (IF task.completed THEN n ELSE n + 1)
             /\ Len(After) = Len(Before) + (IF task.completed THEN 0 ELSE 1)
             /\ \A j \in 1..Len(Before) : j # last'.idx => After[j] = Before[j]
             /\ After[last'.idx].completed = ~task.completed]_vars

(* C30 witness: a weekly task was completed, reopened and completed again, *)
(* and the collection holds it with two successors that differ in their id *)
(* only.                                                                   *)
C30_Witness ==
    /\ last.op = "toggle" /\ last.found /\ last.succ
    /\ Len(get_all_tasks) = 3
    /\ get_all_tasks[1].completed
    /\ get_all_tasks[1].due_date = Some(Date(2025, 12, 29, 495))
    /\ SuccessorsOf(get_all_tasks, get_all_tasks[1]) = {2, 3}
    /\ get_all_tasks[2].id # get_all_tasks[3].id
    /\ [get_all_tasks[2] EXCEPT !.id = 0] = [get_all_tasks[3] EXCEPT !.id = 0]

(* C24: a task created without a priority is stored with priority medium,  *)
(* every stored task carries one of high, medium, low whatever priority it *)
(* was created or updated with, and the priority never makes add_task      *)
(* fail.                                                                   *)
C24_PriorityDefaultsToMedium ==
    /\ \A i \in 1..Len(get_all_tasks) :
          get_all_tasks[i].priority \in {Some("high"), Some("medium"), Some("low")}
    /\ (last.op = "add" /\ TaskInputs[last.k].priority = None) =>
          /\ last.raised = ""
          /\ get_all_tasks[last.idx].priority = Some("medium")

(* C25: complete_task on an already completed task returns that task,     *)
(* still completed, leaves the collection as it was (the task completed,  *)
(* no successor appended); on an unknown id it returns None; it raises    *)
(* nothing in either case.                                                *)
C25_CompleteIsIdempotent ==
    [][last'.op = "complete_task" =>
        /\ last'.raised = ""
        /\ After = Before
        /\ (last'.found /\ Before[last'.idx].completed) =>
              /\ last'.ret = Some(Before[last'.idx])
              /\ After[last'.idx].completed
        /\ ~last'.found => last'.ret = None]_vars

(* C26: when two update_task calls on the same id have loaded the same    *)
(* collection before either saved, then once both have saved the         *)
(* collection has the ids it had when they loaded, in the same places     *)
(* (none duplicated, none missing), every other task is as it was loaded, *)
(* and the target task is the one the call that saved last wrote.         *)
C26_RacingUpdatesLastWriteWins ==
    \A p, q \in 1..Len(inflight) :
        (/\ p # q
         /\ last.op = "update_save"
         /\ inflight[p].pc = "saved" /\ inflight[q].pc = "saved"
         /\ inflight[p].order < inflight[q].order
         /\ inflight[q].order = Len(inflight)
         /\ inflight[p].task_id = inflight[q].task_id
         /\ inflight[p].loaded = inflight[q].loaded
         /\ inflight[q].result # None) =>
            LET loaded == inflight[q].loaded
                i == FirstIndex(load_tasks(loaded), inflight[q].task_id)
            IN /\ Len(file) = Len(loaded)
               /\ \A j \in 1..Len(loaded) : file[j].id = loaded[j].id
               /\ \A j, l \in 1..Len(file) : j # l => file[j].id # file[l].id
               /\ \A j \in 1..Len(loaded) : j # i => file[j] = loaded[j]
               /\ file[i] = inflight[q].result[1]

(* C29: whenever no broadcast is under way, all_connections is the union  *)
(* of the per-user sets of active_connections, and active_connections     *)
(* holds no user with an empty set.                                       *)
C29_AllConnectionsIsUnion ==
    (\A e \in 1..Len(loop.tasks) : loop.tasks[e].pc # "send_json") =>
        /\ manager.all_connections =
              UNION {manager.active_connections[user_id] :
                        user_id \in DOMAIN manager.active_connections}
        /\ \A user_id \in DOMAIN manager.active_connections :
              manager.active_connections[user_id] # {}


(* C21: no broadcast raises; a broadcast that has returned has handed its *)
(* message to every subscriber that was connected when it began, whatever *)
(* sends failed or were slow; no subscriber is handed the same message    *)
(* twice; and a subscriber whose send failed is handed nothing by a       *)
(* broadcast that begins afterwards.                                      *)
C21_BroadcastIsolatesFailures ==
    /\ \A e \in 1..Len(loop.tasks) :
          /\ loop.tasks[e].pc # "raised"
          /\ loop.tasks[e].pc \in {"publish", "done"} =>
                \A c \in loop.tasks[e].connections :
                    \E i \in 1..Len(wire.sent) : wire.sent[i] = SendJson(e, c)
    /\ \A i, j \in 1..Len(wire.sent) :
          (i < j /\ wire.sent[i].kind = "send_json") => wire.sent[j] # wire.sent[i]
    /\ \A i, j \in 1..Len(wire.sent) :
          (/\ i < j
           /\ wire.sent[i].kind = "failed"
           /\ wire.sent[j].kind = "send_json"
           /\ wire.sent[j].websocket = wire.sent[i].websocket) =>
              \E k \in 1..(i - 1) : wire.sent[k].message = wire.sent[j].message

(* the publish attempts of message e through one path *)
PublishedBy(w, e, path) ==
    {i \in 1..Len(w.published) :
        w.published[i].message = e /\ w.published[i].path = path}

(* C22: in emit_task_event the direct Kafka path is attempted exactly when *)
(* the Dapr publish has not succeeded (it returned False or raised), each  *)
(* path is attempted at most once, so at most one of them publishes the    *)
(* event; when both fail emit_task_event ends without raising; and the     *)
(* publishing leaves the persisted collection and the audit log as they    *)
(* were.                                                                   *)
C22_KafkaFallbackOnlyAfterDaprFailure ==
    [][wire'.published # wire.published =>
        /\ file' = file /\ logs' = logs
        /\ \A e \in 1..Len(loop'.tasks) :
              LET dapr == PublishedBy(wire', e, "dapr")
                  kafka == PublishedBy(wire', e, "kafka")
                  succeeded(S) == \E i \in S : wire'.published[i].outcome = "true"
              IN /\ Cardinality(dapr) <= 1 /\ Cardinality(kafka) <= 1
                 /\ kafka # {} <=> (loop'.tasks[e].pc = "done" /\ ~succeeded(dapr))
                 /\ ~(succeeded(dapr) /\ succeeded(kafka))
                 /\ (dapr # {} /\ ~succeeded(dapr) /\ ~succeeded(kafka)) =>
                       /\ loop'.tasks[e].pc = "done"
                       /\ loop'.tasks[e].raised = ""]_vars

(* C22 witness: a task was created and completed, both changes persisted; *)
(* the Dapr publish of the first notification raised and its direct Kafka  *)
(* publish returned False, the Dapr publish of the second returned False   *)
(* and its direct Kafka publish succeeded; neither emit_task_event raised. *)
C22_Witness ==
    /\ Len(get_all_tasks) = 1 /\ get_all_tasks[1].completed
    /\ Len(loop.tasks) = 2
    /\ loop.tasks[1].message.type = "task.created"
    /\ loop.tasks[2].message.type = "task.completed"
    /\ \A e \in {1, 2} : loop.tasks[e].pc = "done" /\ loop.tasks[e].raised = ""
    /\ wire.published = <<Published(1, "dapr", "raised"), Published(1, "kafka", "false"),
                          Published(2, "dapr", "false"), Published(2, "kafka", "true")>>

(* C27: of two notifications, the one whose mutation was persisted first   *)
(* is handed first to every subscriber that was connected when its          *)
(* broadcast began and is still connected: a subscriber that has been sent *)
(* the later one has been sent the earlier one before.                      *)
C27_NotificationsInPersistOrder ==
    \A d, e \in 1..Len(loop.tasks) : \A j \in 1..Len(wire.sent) :
        LET c == wire.sent[j].websocket
        IN (/\ d < e
            /\ wire.sent[j] = SendJson(e, c)
            /\ c \in loop.tasks[d].connections
            /\ c \in manager.all_connections) =>
               \E i \in 1..(j - 1) : wire.sent[i] = SendJson(d, c)

(* C28: a connect or disconnect made while a broadcast is suspended on a   *)
(* send does not abort it: emit_task_event never ends in an exception of    *)
(* the broadcast, so its publish to the event bus takes place, and once the *)
(* broadcast has returned every subscriber that was connected when it       *)
(* began and still is has been sent the message.                            *)
C28_BroadcastSurvivesConnectionChanges ==
    \A e \in 1..Len(loop.tasks) :
        /\ loop.tasks[e].pc # "raised"
        /\ loop.tasks[e].pc = "done" => PublishedBy(wire, e, "dapr") # {}
        /\ loop.tasks[e].pc \in {"publish", "done"} =>
              \A c \in loop.tasks[e].connections :
                  loop.endpoints[c].pc = "open" =>
                      \E i \in 1..Len(wire.sent) : wire.sent[i] = SendJson(e, c)

(* C23: a mutation that has been persisted, over HTTP or through an MCP   *)
(* tool, ends with its success result for the caller, whatever the audit  *)
(* write and the publish of its notification do; and the persisted change *)
(* is the one returned.                                                    *)
C23_MutationSurvivesAuditAndNotification ==
    [][/\ (last'.op = "api_create" /\ file' # file) => last'.raised = ""
       /\ (last'.op \in {"mcp_create", "mcp_update"} /\ db' # db) =>
             /\ last'.raised = ""
             /\ last'.ret = Some(db'[last'.id])]_vars

====
